---- MODULE Spec2Model ----
(***************************************************************************)
(* A model of the book-spine detection pipeline of the library management  *)
(* system (class AdvancedOCR): determineOrientation, groupWordsIntoRegions,*)
(* detectBookSpines and cleanBookTitle.                                    *)
(*                                                                         *)
(* Conventions.                                                            *)
(*  - A string is a sequence of one-character strings, so that the regular *)
(*    expressions of cleanBookTitle are computed character by character.   *)
(*  - Array indices are 1-based here and 0-based in the source.            *)
(*  - A confidence is held as an integer numerator over ConfScale: every   *)
(*    value the code computes is (v + c) / 2 of two earlier values, so it  *)
(*    is a dyadic rational, exact in a JavaScript double and exact here.   *)
(*  - A center (x0 + x1) / 2 is held doubled, as x0 + x1; every comparison *)
(*    of the code is doubled on both sides.                                *)
(***************************************************************************)
EXTENDS Integers, Sequences, FiniteSets, TLC

(***************************************************************************)
(* Bounds of the model.                                                    *)
(***************************************************************************)
MaxWords == 3
MaxTitleLen == 4
MaxOrientWords == 3
MaxScans == 2
MaxLoggerEvents == 2
MaxInterruptions == 1
MaxBooks == 2
MaxUsers == 2
MaxClock == 6
MaxRows == 2
MaxOps == 2

\* Denominator of the confidences: one halving per merge, at most
\* MaxWords - 1 merges between a word and the spine that holds it.
ConfScale == 2 ^ MaxWords

VARIABLES
    \* ---- processBookshelfImage: grouping and spine detection
    words,       \* the word list handed to groupWordsIntoRegions
    pc,          \* position in the pipeline
    i,           \* outer loop index (both functions name it i)
    j,           \* inner loop index (both functions name it j)
    used,        \* the "used" index set of the running function
    region,      \* the region being grown (groupWordsIntoRegions)
    regions,     \* regions pushed so far / the list handed to detectBookSpines
    spine,       \* the spine being grown (detectBookSpines)
    titleOrder,  \* history: region indices in the order their texts stand in spine.title
    spines,      \* spines pushed so far
    candidates,  \* history: every spine candidate at the acceptance filter
    result,      \* the list detectBookSpines returns
    \* ---- cleanBookTitle called on its own
    title,       \* the input string
    cleaned,     \* cleanBookTitle(title)
    recleaned,   \* cleanBookTitle(cleaned)
    cleanCalls,  \* number of calls made
    \* ---- determineOrientation called on its own
    owords,      \* the word list
    oresult,     \* the value returned
    ohscore,     \* horizontalScore when the call returned
    ovscore,     \* verticalScore when the call returned
    ocalled,     \* whether the call was made
    \* ---- the scan modal (performAdvancedOCR) and processBookshelfImage
    isOpen,           \* the isOpen prop of the modal (showPhotoScan of AddBookForm)
    selectedFile,     \* modal state: the chosen file, 0 for null
    preview,          \* modal state: the preview data URL (its file), 0 for ''
    previewReaders,   \* the files whose FileReader of handleFileSelect is pending
    scanning,         \* modal state
    scanProgress,     \* modal state
    detectedBooks,    \* modal state: [call, image, count], count 0 for []
    textRegions,      \* modal state: [call, image, count], count 0 for []
    visualizationUrl, \* modal state: the call whose visualization is shown, 0 for ''
    alerts,           \* the calls for which the failure alert was shown
    interruptions,    \* how often the photo was changed or the modal closed
    canvas,           \* this.canvas of the shared instance: the file whose pixels it holds
    call,             \* number of processBookshelfImage calls started
    spc,              \* per call: its position
    callFile,         \* per call: imageFile
    callPreview,      \* per call: preview as captured by its performAdvancedOCR
    processedImageUrl,\* per call: the local of line 633 (the file it encodes)
    progress,         \* per call: the values passed to onProgress, in order
    engineProgress,   \* per call: last m.progress of 'recognizing text', in tenths
    loggerEvents,     \* logger messages delivered so far
    settled,          \* per call: what its promise settled with
    logged,           \* per call: the error handed to console.error
    viz,              \* per call: state of its visualization
    vizImage,         \* per call: the preview its visualization loads
    \* ---- the library reducer
    books,       \* state.books
    users,       \* state.users
    bookIds,     \* how many book ids uuidv4 has issued
    userIds,     \* how many user ids uuidv4 has issued
    lastAction,        \* history: the action dispatched last
    prevAction,       \* history: the action dispatched before it
    pre,         \* history: books and users before the last action
    pre2,        \* history: books and users before the action before it
    \* ---- the provider's saves to localStorage
    content,            \* state.books and state.users, as one value
    now,                \* Date.now()
    libraryData,        \* localStorage['libraryData']
    libraryDataBackup,  \* localStorage['libraryDataBackup']
    stamped,            \* the t of the keys 'libraryData_<t>' in localStorage
    emergency,          \* whether localStorage has 'libraryDataEmergency'
    lastSaveRef,        \* lastSaveRef.current
    lastCall,           \* history: what the last handler did
    \* ---- the merge import
    heldBooks,     \* state.books when handleMergeImport runs
    heldUsers,     \* state.users when handleMergeImport runs
    fileBooks,     \* the rows of the Books sheet
    fileUsers,     \* the rows of the Users sheet
    mergeSaved,    \* the dataToSave written to libraryData
    mergeLoaded,   \* the payload of the LOAD_DATA dispatched
    \* ---- the API operations of the library context
    api,           \* per call: idle, inflight, ok or failed
    apiKind,       \* per call: the operation called
    loading,       \* state.loading
    error          \* state.error

ocrVars == <<words, pc, i, j, used, region, regions, spine, titleOrder,
             spines, candidates, result>>
cleanVars == <<title, cleaned, recleaned, cleanCalls>>
orientVars == <<owords, oresult, ohscore, ovscore, ocalled>>
modalVars == <<isOpen, selectedFile, preview, previewReaders, scanning,
               scanProgress, detectedBooks, textRegions, visualizationUrl, alerts,
               interruptions>>
callVars == <<canvas, call, spc, callFile, callPreview, processedImageUrl,
              progress, engineProgress, loggerEvents, settled, logged>>
vizVars == <<viz, vizImage>>
scanVars == <<modalVars, callVars, vizVars>>
libVars == <<books, users, bookIds, userIds, lastAction, prevAction, pre, pre2>>
storeVars == <<content, now, libraryData, libraryDataBackup, stamped,
               emergency, lastSaveRef, lastCall>>
mergeVars == <<heldBooks, heldUsers, fileBooks, fileUsers, mergeSaved, mergeLoaded>>
apiVars == <<api, apiKind, loading, error>>
appVars == <<libVars, storeVars, mergeVars, apiVars>>
vars == <<ocrVars, cleanVars, orientVars, scanVars, appVars>>

(***************************************************************************)
(* Sequences up to a length.                                               *)
(***************************************************************************)
SeqsUpTo(S, n) == UNION {[1..k -> S] : k \in 0..n}

Abs(x) == IF x < 0 THEN -x ELSE x
Min(a, b) == IF a < b THEN a ELSE b
Max(a, b) == IF a > b THEN a ELSE b

(***************************************************************************)
(* Characters and the regular expressions of cleanBookTitle.               *)
(***************************************************************************)
Space == " "
Tab == "\t"
Digits == {"0", "1", "2", "3", "4", "5", "6", "7", "8", "9"}
Letters == {"a", "b", "c", "d", "e", "f", "g", "h", "i", "j", "k", "l", "m",
            "n", "o", "p", "q", "r", "s", "t", "u", "v", "w", "x", "y", "z",
            "A", "B", "C", "D", "E", "F", "G", "H", "I", "J", "K", "L", "M",
            "N", "O", "P", "Q", "R", "S", "T", "U", "V", "W", "X", "Y", "Z"}

\* \s
IsSpace(c) == c \in {Space, Tab}
\* \d
IsDigit(c) == c \in Digits
\* \w : letters, digits and the underscore
IsWordChar(c) == c \in Letters \cup Digits \cup {"_"}
\* the class [\w\s\-:&'.,] whose complement is removed
IsKeptChar(c) == IsWordChar(c) \/ IsSpace(c) \/ c \in {"-", ":", "&", "'", ".", ","}

RECURSIVE SkipSpaces(_)
SkipSpaces(s) ==
    IF s # <<>> /\ IsSpace(Head(s)) THEN SkipSpaces(Tail(s)) ELSE s

RECURSIVE SkipDigits(_)
SkipDigits(s) ==
    IF s # <<>> /\ IsDigit(Head(s)) THEN SkipDigits(Tail(s)) ELSE s

\* .replace(/\s+/g, ' ')
RECURSIVE CollapseWhitespace(_)
CollapseWhitespace(s) ==
    IF s = <<>> THEN <<>>
    ELSE IF IsSpace(Head(s))
         THEN <<Space>> \o CollapseWhitespace(SkipSpaces(Tail(s)))
         ELSE <<Head(s)>> \o CollapseWhitespace(Tail(s))

\* .replace(/[^\w\s\-:&'.,]/g, '')
StripSpecial(s) == SelectSeq(s, IsKeptChar)

\* .replace(/^\d+\s*/, '')
StripLeadingNumber(s) ==
    IF s # <<>> /\ IsDigit(Head(s)) THEN SkipSpaces(SkipDigits(s)) ELSE s

RECURSIVE TrimEnd(_)
TrimEnd(s) ==
    IF s # <<>> /\ IsSpace(s[Len(s)]) THEN TrimEnd(SubSeq(s, 1, Len(s) - 1)) ELSE s

\* .trim()
Trim(s) == TrimEnd(SkipSpaces(s))

\* .split(' ') : the pieces between single spaces, empty pieces included
RECURSIVE SplitOnSpace(_)
SplitOnSpace(s) ==
    IF \A k \in 1..Len(s) : s[k] # Space THEN <<s>>
    ELSE LET k == CHOOSE n \in 1..Len(s) :
                      s[n] = Space /\ \A m \in 1..(n - 1) : s[m] # Space
         IN  <<SubSeq(s, 1, k - 1)>> \o SplitOnSpace(SubSeq(s, k + 1, Len(s)))

\* a variant of IsLongToken: only the empty pieces dropped
IsNonEmptyToken(w) == Len(w) > 0

\* word => word.length > 1
IsLongToken(w) == Len(w) > 1

\* .join(' ')
RECURSIVE JoinSpace(_)
JoinSpace(ts) ==
    IF ts = <<>> THEN <<>>
    ELSE IF Len(ts) = 1 THEN ts[1]
    ELSE ts[1] \o <<Space>> \o JoinSpace(Tail(ts))

cleanBookTitle(t) ==
    JoinSpace(SelectSeq(SplitOnSpace(Trim(StripLeadingNumber(StripSpecial(
        CollapseWhitespace(t))))), IsLongToken))

(***************************************************************************)
(* Bounding boxes.                                                         *)
(***************************************************************************)
Box(x, y, w, h) == [x0 |-> x, y0 |-> y, x1 |-> x + w, y1 |-> y + h]
Width(b) == b.x1 - b.x0
Height(b) == b.y1 - b.y0
\* twice the center: (x0 + x1) / 2 and (y0 + y1) / 2 doubled
CenterX2(b) == b.x0 + b.x1
CenterY2(b) == b.y0 + b.y1

\* a variant of ExpandBox: lines 507-508 (and 582-583) left out
ExpandBoxTopLeftOnly(b, c) ==
    [x0 |-> Min(b.x0, c.x0), y0 |-> Min(b.y0, c.y0), x1 |-> b.x1, y1 |-> b.y1]

\* Expand bounding box
ExpandBox(b, c) ==
    [x0 |-> Min(b.x0, c.x0), y0 |-> Min(b.y0, c.y0),
     x1 |-> Max(b.x1, c.x1), y1 |-> Max(b.y1, c.y1)]

\* (current + new) / 2
AverageConfidence(v, c) == (v + c) \div 2

(***************************************************************************)
(* determineOrientation                                                    *)
(***************************************************************************)
\* a variant of ScoresHorizontal: line 450 written >=
ScoresHorizontalInclusive(w) == 2 * Width(w.bbox) >= 3 * Height(w.bbox)

\* width > height * 1.5, doubled
ScoresHorizontal(w) == 2 * Width(w.bbox) > 3 * Height(w.bbox)
\* else if height > width * 1.5, doubled
ScoresVertical(w) == ~ScoresHorizontal(w) /\ 2 * Height(w.bbox) > 3 * Width(w.bbox)

RECURSIVE horizontalScore(_)
horizontalScore(ws) ==
    IF ws = <<>> THEN 0
    ELSE (IF ScoresHorizontal(Head(ws)) THEN Head(ws).confidence ELSE 0)
         + horizontalScore(Tail(ws))

RECURSIVE verticalScore(_)
verticalScore(ws) ==
    IF ws = <<>> THEN 0
    ELSE (IF ScoresVertical(Head(ws)) THEN Head(ws).confidence ELSE 0)
         + verticalScore(Tail(ws))

\* a variant of determineOrientation: line 457 written >=
determineOrientationTiesHorizontal(ws) ==
    IF Len(ws) = 0 THEN "horizontal"
    ELSE IF horizontalScore(ws) >= verticalScore(ws) THEN "horizontal"
    ELSE "vertical"

determineOrientation(ws) ==
    IF Len(ws) = 0 THEN "horizontal"
    ELSE IF horizontalScore(ws) > verticalScore(ws) THEN "horizontal"
    ELSE "vertical"

(***************************************************************************)
(* groupWordsIntoRegions                                                   *)
(***************************************************************************)
\* the pipeline touches none of the variables of the stand-alone calls
OcrOnly == UNCHANGED <<cleanVars, orientVars, scanVars, appVars>>

\* a variant of wordsClose: the comparison of line 500 written <=
wordsCloseInclusive(word1, word2) ==
    LET dx2 == CenterX2(word2.bbox) - CenterX2(word1.bbox)
        dy2 == CenterY2(word2.bbox) - CenterY2(word1.bbox)
        twoAvgHeight == Height(word1.bbox) + Height(word2.bbox)
    IN  /\ twoAvgHeight >= 0
        /\ dx2 * dx2 + dy2 * dy2 <= (2 * twoAvgHeight) * (2 * twoAvgHeight)

\* distance < avgHeight * 2, where distance = sqrt(dx^2 + dy^2) between the
\* two centers and avgHeight * 2 = h1 + h2.  With T = h1 + h2 the comparison
\* sqrt(D) < T is T > 0 /\ D < T^2 (the correctly rounded square root of a
\* multiple of 1/4 below T^2 stays below T at these magnitudes); both sides
\* are multiplied by 4 to work on doubled centers.
wordsClose(word1, word2) ==
    LET dx2 == CenterX2(word2.bbox) - CenterX2(word1.bbox)
        dy2 == CenterY2(word2.bbox) - CenterY2(word1.bbox)
        twoAvgHeight == Height(word1.bbox) + Height(word2.bbox)
    IN  /\ twoAvgHeight > 0
        /\ dx2 * dx2 + dy2 * dy2 < (2 * twoAvgHeight) * (2 * twoAvgHeight)

\* the words a region refers to, as word objects
WordsOf(r) == [k \in 1..Len(r.words) |-> words[r.words[k]]]

\* lines 470-476: the region seeded by word n
SeedRegion(n) ==
    [text |-> words[n].text,
     confidence |-> words[n].confidence,
     bbox |-> words[n].bbox,
     orientation |-> determineOrientation(<<words[n]>>),
     words |-> <<n>>]

\* a variant of MergeWord: the confidence kept as the true mean of the
\* words merged so far
MergeWordTrueMean(r, n) ==
    [r EXCEPT !.words = Append(@, n),
              !.text = @ \o <<Space>> \o words[n].text,
              !.bbox = ExpandBox(@, words[n].bbox),
              !.confidence = (@ * Len(r.words) + words[n].confidence)
                                 \div (Len(r.words) + 1)]

\* a variant of MergeWord: line 502 written region.text += word2.text
MergeWordNoSpace(r, n) ==
    [r EXCEPT !.words = Append(@, n),
              !.text = @ \o words[n].text,
              !.bbox = ExpandBox(@, words[n].bbox),
              !.confidence = AverageConfidence(@, words[n].confidence)]

\* lines 501-511: word n merged into region r
MergeWord(r, n) ==
    [r EXCEPT !.words = Append(@, n),
              !.text = @ \o <<Space>> \o words[n].text,
              !.bbox = ExpandBox(@, words[n].bbox),
              !.confidence = AverageConfidence(@, words[n].confidence)]

\* a variant of WordsAfterExpand: line 473 written bbox: words[i].bbox, the
\* region sharing the box object of its first word
WordsAfterExpandShared(ws, seed, n) ==
    [ws EXCEPT ![seed].bbox = ExpandBox(@, ws[n].bbox)]

\* lines 473 and 505-508: region.bbox is a copy ({ ...words[i].bbox }), so
\* the four assignments to region.bbox write no word
WordsAfterExpand(ws, seed, n) == ws

\* line 462: if (words.length === 0) return [];
GroupEmpty ==
    /\ pc = "group" /\ Len(words) = 0
    /\ regions' = <<>>
    /\ pc' = "detect" /\ i' = 1 /\ used' = {}
    /\ UNCHANGED <<words, j, region, spine, titleOrder, spines, candidates, result>>
    /\ OcrOnly

\* line 468: if (used.has(i)) continue;
GroupSkip ==
    /\ pc = "group" /\ i <= Len(words) /\ i \in used
    /\ i' = i + 1
    /\ UNCHANGED <<words, pc, j, used, region, regions, spine, titleOrder,
                   spines, candidates, result>>
    /\ OcrOnly

\* lines 470-481: a new region seeded with word i
GroupSeed ==
    /\ pc = "group" /\ i <= Len(words) /\ i \notin used
    /\ region' = SeedRegion(i)
    /\ used' = used \cup {i}
    /\ j' = i + 1
    /\ pc' = "groupScan"
    /\ UNCHANGED <<words, i, regions, spine, titleOrder, spines, candidates, result>>
    /\ OcrOnly

\* line 482: if (used.has(j)) continue;
GroupScanSkip ==
    /\ pc = "groupScan" /\ j <= Len(words) /\ j \in used
    /\ j' = j + 1
    /\ UNCHANGED <<words, pc, i, used, region, regions, spine, titleOrder,
                   spines, candidates, result>>
    /\ OcrOnly

\* a variant of GroupMerge: line 513, used.add(j), left out
GroupMergeNoMark ==
    /\ pc = "groupScan" /\ j <= Len(words) /\ j \notin used
    /\ wordsClose(words[i], words[j])
    /\ region' = [region EXCEPT !.words = Append(@, j),
                                !.text = @ \o <<Space>> \o words[j].text,
                                !.bbox = ExpandBox(@, words[j].bbox),
                                !.confidence = AverageConfidence(@, words[j].confidence)]
    /\ j' = j + 1
    /\ UNCHANGED <<words, pc, i, used, regions, spine, titleOrder, spines,
                   candidates, result>>
    /\ OcrOnly

\* lines 484-514, the test of line 500 true
GroupMerge ==
    /\ pc = "groupScan" /\ j <= Len(words) /\ j \notin used
    /\ wordsClose(words[i], words[j])
    /\ region' = MergeWord(region, j)
    /\ words' = WordsAfterExpand(words, i, j)
    /\ used' = used \cup {j}
    /\ j' = j + 1
    /\ UNCHANGED <<pc, i, regions, spine, titleOrder, spines, candidates, result>>
    /\ OcrOnly

\* lines 484-514, the test of line 500 false
GroupNoMerge ==
    /\ pc = "groupScan" /\ j <= Len(words) /\ j \notin used
    /\ ~wordsClose(words[i], words[j])
    /\ j' = j + 1
    /\ UNCHANGED <<words, pc, i, used, region, regions, spine, titleOrder,
                   spines, candidates, result>>
    /\ OcrOnly

\* lines 517-519: the inner loop is over
GroupEmit ==
    /\ pc = "groupScan" /\ j > Len(words)
    /\ region' = [region EXCEPT !.orientation = determineOrientation(WordsOf(region))]
    /\ regions' = Append(regions, region')
    /\ i' = i + 1
    /\ pc' = "group"
    /\ UNCHANGED <<words, j, used, spine, titleOrder, spines, candidates, result>>
    /\ OcrOnly

\* line 522 and lines 527-530: return regions; detectBookSpines starts
GroupReturn ==
    /\ pc = "group" /\ Len(words) > 0 /\ i > Len(words)
    /\ pc' = "detect" /\ i' = 1 /\ used' = {}
    /\ UNCHANGED <<words, j, region, regions, spine, titleOrder, spines,
                   candidates, result>>
    /\ OcrOnly

(***************************************************************************)
(* detectBookSpines                                                        *)
(***************************************************************************)
AlignX == 50
AlignY == 30
MinTitleLength == 3
MinConfidence == 30

\* lines 553-555: centers within 50 pixels horizontally
isVerticallyAligned(region1, region2) ==
    Abs(CenterX2(region1.bbox) - CenterX2(region2.bbox)) < 2 * AlignX

\* lines 557-559: centers within 30 pixels vertically (computed, never used)
isHorizontallyAligned(region1, region2) ==
    Abs(CenterY2(region1.bbox) - CenterY2(region2.bbox)) < 2 * AlignY

\* lines 562-566 and the second conjunct of line 569:
\* verticalDistance < avgHeight * 3, doubled
verticallyNear(region1, region2) ==
    Abs(CenterY2(region2.bbox) - CenterY2(region1.bbox))
        < 3 * (Height(region1.bbox) + Height(region2.bbox))

\* a variant of regionsBelong: isHorizontallyAligned required as well
regionsBelongBothAligned(region1, region2) ==
    /\ isVerticallyAligned(region1, region2)
    /\ isHorizontallyAligned(region1, region2)
    /\ verticallyNear(region1, region2)

\* line 569
regionsBelong(region1, region2) ==
    isVerticallyAligned(region1, region2) /\ verticallyNear(region1, region2)

\* lines 535-541: the spine seeded by region n
SeedSpine(n) ==
    [title |-> regions[n].text,
     confidence |-> regions[n].confidence,
     bbox |-> regions[n].bbox,
     orientation |-> regions[n].orientation,
     textRegions |-> <<n>>]

\* line 573
goesBefore(region1, region2) == region2.bbox.y0 < region1.bbox.y0

\* lines 570-586: region n merged into spine s, seeded by region seed
MergeRegion(s, seed, n) ==
    [s EXCEPT !.textRegions = Append(@, n),
              !.title = IF goesBefore(regions[seed], regions[n])
                        THEN regions[n].text \o <<Space>> \o @
                        ELSE @ \o <<Space>> \o regions[n].text,
              !.bbox = ExpandBox(@, regions[n].bbox),
              !.confidence = AverageConfidence(@, regions[n].confidence)]

\* lines 538 and 579-582: spine.bbox is a copy ({ ...regions[i].bbox }), so
\* the four assignments to spine.bbox write no region
RegionsAfterExpand(rs, seed, n) == rs

\* a variant of isAccepted: line 596 written confidence >= 30
isAcceptedInclusive(s) ==
    Len(s.title) >= MinTitleLength /\ s.confidence >= MinConfidence * ConfScale

\* line 596
isAccepted(s) ==
    Len(s.title) >= MinTitleLength /\ s.confidence > MinConfidence * ConfScale

\* a variant of InsertByCenterY: the comparator written centerYB - centerYA
RECURSIVE InsertByCenterYReversed(_, _)
InsertByCenterYReversed(s, sorted) ==
    IF sorted = <<>> THEN <<s>>
    ELSE IF CenterY2(Head(sorted).bbox) >= CenterY2(s.bbox)
         THEN <<Head(sorted)>> \o InsertByCenterYReversed(s, Tail(sorted))
         ELSE <<s>> \o sorted

\* lines 601-606: Array.prototype.sort is stable; the comparator is
\* centerYA - centerYB
RECURSIVE InsertByCenterY(_, _)
InsertByCenterY(s, sorted) ==
    IF sorted = <<>> THEN <<s>>
    ELSE IF CenterY2(Head(sorted).bbox) <= CenterY2(s.bbox)
         THEN <<Head(sorted)>> \o InsertByCenterY(s, Tail(sorted))
         ELSE <<s>> \o sorted

RECURSIVE SortByCenterY(_)
SortByCenterY(ss) ==
    IF ss = <<>> THEN <<>>
    ELSE InsertByCenterY(ss[Len(ss)], SortByCenterY(SubSeq(ss, 1, Len(ss) - 1)))

\* line 533: if (used.has(i)) continue;
DetectSkip ==
    /\ pc = "detect" /\ i <= Len(regions) /\ i \in used
    /\ i' = i + 1
    /\ UNCHANGED <<words, pc, j, used, region, regions, spine, titleOrder,
                   spines, candidates, result>>
    /\ OcrOnly

\* lines 535-546: a new spine seeded with region i
DetectSeed ==
    /\ pc = "detect" /\ i <= Len(regions) /\ i \notin used
    /\ spine' = SeedSpine(i)
    /\ titleOrder' = <<i>>
    /\ used' = used \cup {i}
    /\ j' = i + 1
    /\ pc' = "detectScan"
    /\ UNCHANGED <<words, i, region, regions, spines, candidates, result>>
    /\ OcrOnly

\* line 547: if (used.has(j)) continue;
DetectScanSkip ==
    /\ pc = "detectScan" /\ j <= Len(regions) /\ j \in used
    /\ j' = j + 1
    /\ UNCHANGED <<words, pc, i, used, region, regions, spine, titleOrder,
                   spines, candidates, result>>
    /\ OcrOnly

\* a variant of DetectMerge: line 588, used.add(j), left out
DetectMergeNoMark ==
    /\ pc = "detectScan" /\ j <= Len(regions) /\ j \notin used
    /\ regionsBelong(regions[i], regions[j])
    /\ spine' = MergeRegion(spine, i, j)
    /\ titleOrder' = IF goesBefore(regions[i], regions[j])
                     THEN <<j>> \o titleOrder
                     ELSE Append(titleOrder, j)
    /\ j' = j + 1
    /\ UNCHANGED <<words, pc, i, used, region, regions, spines, candidates, result>>
    /\ OcrOnly

\* lines 549-589, the test of line 569 true
DetectMerge ==
    /\ pc = "detectScan" /\ j <= Len(regions) /\ j \notin used
    /\ regionsBelong(regions[i], regions[j])
    /\ spine' = MergeRegion(spine, i, j)
    /\ titleOrder' = IF goesBefore(regions[i], regions[j])
                     THEN <<j>> \o titleOrder
                     ELSE Append(titleOrder, j)
    /\ regions' = RegionsAfterExpand(regions, i, j)
    /\ used' = used \cup {j}
    /\ j' = j + 1
    /\ UNCHANGED <<words, pc, i, region, spines, candidates, result>>
    /\ OcrOnly

\* lines 549-589, the test of line 569 false
DetectNoMerge ==
    /\ pc = "detectScan" /\ j <= Len(regions) /\ j \notin used
    /\ ~regionsBelong(regions[i], regions[j])
    /\ j' = j + 1
    /\ UNCHANGED <<words, pc, i, used, region, regions, spine, titleOrder,
                   spines, candidates, result>>
    /\ OcrOnly

\* lines 592-599: the inner loop is over; clean the title, filter, push
DetectEmit ==
    /\ pc = "detectScan" /\ j > Len(regions)
    /\ spine' = [spine EXCEPT !.title = cleanBookTitle(@)]
    /\ spines' = IF isAccepted(spine') THEN Append(spines, spine') ELSE spines
    /\ candidates' = Append(candidates,
                            [spine |-> spine', rawTitle |-> spine.title,
                             order |-> titleOrder, accepted |-> isAccepted(spine')])
    /\ i' = i + 1
    /\ pc' = "detect"
    /\ UNCHANGED <<words, j, used, region, regions, titleOrder, result>>
    /\ OcrOnly

\* lines 601-606: return spines.sort(...) (the sort is in place)
DetectReturn ==
    /\ pc = "detect" /\ i > Len(regions)
    /\ spines' = SortByCenterY(spines)
    /\ result' = spines'
    /\ pc' = "done"
    /\ UNCHANGED <<words, i, j, used, region, regions, spine, titleOrder, candidates>>
    /\ OcrOnly

(***************************************************************************)
(* The pipeline's inputs.  Two families of word lists: one rich in         *)
(* geometry (every position of a small grid, and one tall box), one rich   *)
(* in texts and confidences over four positions.                           *)
(***************************************************************************)
GridX == {0, 40, 50}
GridY == {0, 40, 60}
GeomBoxes ==
    {Box(x, y, 20, 20) : x \in GridX, y \in GridY}
        \cup {Box(0, 0, 20, 40), Box(0, 40, 40, 20)}
GeomWords ==
    {[text |-> <<"a", "b", "c">>, confidence |-> 40 * ConfScale, bbox |-> b] :
        b \in GeomBoxes}

FilterBoxes == {Box(0, 0, 20, 20), Box(40, 0, 20, 20), Box(50, 0, 20, 20),
                Box(40, 40, 20, 20)}
FilterTexts == {<<"a", "b">>, <<"a", "b", "c">>}
FilterConfidences == {20, 40}
FilterWords ==
    {[text |-> t, confidence |-> c * ConfScale, bbox |-> b] :
        t \in FilterTexts, c \in FilterConfidences, b \in FilterBoxes}

\* the worked examples: "Harry" and "Potter" side by side, near and far
Harry == <<"H", "a", "r", "r", "y">>
Potter == <<"P", "o", "t", "t", "e", "r">>
ScenarioWords ==
    {[text |-> Harry, confidence |-> 90 * ConfScale, bbox |-> Box(0, 0, 30, 20)],
     [text |-> Potter, confidence |-> 90 * ConfScale, bbox |-> Box(32, 0, 30, 20)],
     [text |-> Harry, confidence |-> 90 * ConfScale, bbox |-> Box(0, 0, 50, 20)],
     [text |-> Potter, confidence |-> 90 * ConfScale, bbox |-> Box(55, 0, 55, 20)]}

NoBox == Box(0, 0, 0, 0)
NoRegion == [text |-> <<>>, confidence |-> 0, bbox |-> NoBox,
             orientation |-> "horizontal", words |-> <<>>]
NoSpine == [title |-> <<>>, confidence |-> 0, bbox |-> NoBox,
            orientation |-> "horizontal", textRegions |-> <<>>]

OcrIdle ==
    /\ words = <<>> /\ pc = "idle" /\ i = 1 /\ j = 1 /\ used = {}
    /\ region = NoRegion /\ regions = <<>>
    /\ spine = NoSpine /\ titleOrder = <<>> /\ spines = <<>>
    /\ candidates = <<>> /\ result = <<>>

CleanIdle == title = <<>> /\ cleaned = <<>> /\ recleaned = <<>> /\ cleanCalls = 0

OrientIdle ==
    /\ owords = <<>> /\ oresult = "horizontal" /\ ocalled = FALSE
    /\ ohscore = 0 /\ ovscore = 0

\* processBookshelfImage, lines 671-676, on any word list
\* no file, no call, no result
NoFile == 0
NoCall == 0
NoDetection == [call |-> NoCall, image |-> NoFile, count |-> 0]
NoSettle ==
    [kind |-> "pending", message |-> "", bookSpines |-> NoDetection,
     textRegions |-> NoDetection, processedImageUrl |-> NoFile]
Calls == 1..MaxScans

\* the modal as useState initialises it (lines 23-29), closed, no call made
ScanInit ==
    /\ isOpen = FALSE
    /\ selectedFile = NoFile /\ preview = NoFile /\ previewReaders = {}
    /\ scanning = FALSE /\ scanProgress = 0
    /\ detectedBooks = NoDetection /\ textRegions = NoDetection
    /\ visualizationUrl = NoCall /\ alerts = {} /\ interruptions = 0
    /\ canvas = NoFile /\ call = 0 /\ loggerEvents = 0
    /\ spc = [c \in Calls |-> "none"]
    /\ callFile = [c \in Calls |-> NoFile]
    /\ callPreview = [c \in Calls |-> NoFile]
    /\ processedImageUrl = [c \in Calls |-> NoFile]
    /\ progress = [c \in Calls |-> <<>>]
    /\ engineProgress = [c \in Calls |-> 0]
    /\ settled = [c \in Calls |-> NoSettle]
    /\ logged = [c \in Calls |-> ""]
    /\ viz = [c \in Calls |-> "none"] /\ vizImage = [c \in Calls |-> NoFile]

ScanIdle == ScanInit

\* the empty library (loadInitialState with nothing stored, lines 44-49)
NoUser == 0
NoDate == 0
NoAction == [type |-> "none", book |-> 0, user |-> 0]
EmptyLibrary == [books |-> <<>>, users |-> <<>>]

LibInit ==
    /\ books = <<>> /\ users = <<>> /\ bookIds = 0 /\ userIds = 0
    /\ lastAction = NoAction /\ prevAction = NoAction
    /\ pre = EmptyLibrary /\ pre2 = EmptyLibrary

LibIdle == LibInit

\* localStorage before the first save; an item is the parsed JSON text
NoItem == [content |-> 0, timestamp |-> 0]
NoHandler == [op |-> "none", outcome |-> "none", removed |-> 0]

StoreInit ==
    /\ content = 1 /\ now = 1
    /\ libraryData = NoItem /\ libraryDataBackup = NoItem
    /\ stamped = {} /\ emergency = FALSE
    /\ lastSaveRef = NoItem /\ lastCall = NoHandler

StoreIdle == StoreInit

\* no file chosen for import
NoPayload == [done |-> FALSE, books |-> <<>>, users |-> <<>>]

MergeIdle ==
    /\ heldBooks = <<>> /\ heldUsers = <<>> /\ fileBooks = <<>> /\ fileUsers = <<>>
    /\ mergeSaved = NoPayload /\ mergeLoaded = NoPayload

\* no API operation called yet; loading false and error null (lines 45-50)
Ops == 1..MaxOps
NoError == "null"
NoKind == "none"

ApiInit ==
    /\ api = [o \in Ops |-> "idle"] /\ apiKind = [o \in Ops |-> NoKind]
    /\ loading = FALSE /\ error = NoError

ApiIdle == ApiInit

\* the provider, the import and the API calls at rest
AppIdle == LibIdle /\ StoreIdle /\ MergeIdle /\ ApiIdle

Init ==
    /\ words \in SeqsUpTo(GeomWords, MaxWords) \cup SeqsUpTo(FilterWords, MaxWords)
                    \cup SeqsUpTo(ScenarioWords, MaxWords)
    /\ pc = "group" /\ i = 1 /\ j = 1 /\ used = {}
    /\ region = NoRegion /\ regions = <<>>
    /\ spine = NoSpine /\ titleOrder = <<>> /\ spines = <<>>
    /\ candidates = <<>> /\ result = <<>>
    /\ CleanIdle /\ OrientIdle /\ ScanIdle /\ AppIdle

Next ==
    \/ GroupEmpty \/ GroupSkip \/ GroupSeed \/ GroupScanSkip
    \/ GroupMerge \/ GroupNoMerge \/ GroupEmit \/ GroupReturn
    \/ DetectSkip \/ DetectSeed \/ DetectScanSkip
    \/ DetectMerge \/ DetectNoMerge \/ DetectEmit \/ DetectReturn

Spec == Init /\ [][Next]_vars

(***************************************************************************)
(* cleanBookTitle on its own: every string over TitleChars up to           *)
(* MaxTitleLen characters, cleaned, and the result cleaned again.          *)
(***************************************************************************)
TitleChars == {"a", "1", Space, Tab, "!", "_"}

\* "3   The Lord-of the Rings!!"
LordOfTheRingsRaw ==
    <<"3", " ", " ", " ", "T", "h", "e", " ", "L", "o", "r", "d", "-", "o",
      "f", " ", "t", "h", "e", " ", "R", "i", "n", "g", "s", "!", "!">>

InitClean ==
    /\ title \in SeqsUpTo(TitleChars, MaxTitleLen) \cup {LordOfTheRingsRaw}
    /\ cleaned = <<>> /\ recleaned = <<>> /\ cleanCalls = 0
    /\ OcrIdle /\ OrientIdle /\ ScanIdle /\ AppIdle

CleanTitle ==
    /\ cleanCalls = 0
    /\ cleaned' = cleanBookTitle(title)
    /\ cleanCalls' = 1
    /\ UNCHANGED <<title, recleaned, ocrVars, orientVars, scanVars, appVars>>

CleanAgain ==
    /\ cleanCalls = 1
    /\ recleaned' = cleanBookTitle(cleaned)
    /\ cleanCalls' = 2
    /\ UNCHANGED <<title, cleaned, ocrVars, orientVars, scanVars, appVars>>

NextClean == CleanTitle \/ CleanAgain

SpecClean == InitClean /\ [][NextClean]_vars

(***************************************************************************)
(* determineOrientation on its own: word lists over every shape class      *)
(* (wide, tall, near-square, the two 1.5 boundaries, degenerate boxes).    *)
(***************************************************************************)
OrientShapes == {<<10, 10>>, <<15, 10>>, <<16, 10>>, <<10, 15>>, <<10, 16>>,
                 <<0, 0>>, <<10, 0>>, <<0, 10>>, <<-10, 0>>}
OrientConfidences == {30, 60}
OrientWords ==
    {[text |-> <<"a", "b">>, confidence |-> c * ConfScale,
      bbox |-> Box(0, 0, s[1], s[2])] :
        s \in OrientShapes, c \in OrientConfidences}

InitOrient ==
    /\ owords \in SeqsUpTo(OrientWords, MaxOrientWords)
    /\ oresult = "horizontal" /\ ocalled = FALSE
    /\ ohscore = 0 /\ ovscore = 0
    /\ OcrIdle /\ CleanIdle /\ ScanIdle /\ AppIdle

Orient ==
    /\ ~ocalled
    /\ oresult' = determineOrientation(owords)
    /\ ohscore' = horizontalScore(owords)
    /\ ovscore' = verticalScore(owords)
    /\ ocalled' = TRUE
    /\ UNCHANGED <<owords, ocrVars, cleanVars, scanVars, appVars>>

NextOrient == Orient

SpecOrient == InitOrient /\ [][NextOrient]_vars

(***************************************************************************)
(* The scan: performAdvancedOCR of the modal calling processBookshelfImage *)
(* of the shared advancedOCR instance, then starting the visualization.    *)
(* The modal stays mounted while closed, so a call started before a close  *)
(* runs on beside one started after reopening: the state of a call is kept *)
(* per call.  A detection result is kept as the call that made it, the     *)
(* image it was recognised from and the number of entries; a data URL as   *)
(* the file it encodes.  The code between two awaits runs as one step; the *)
(* continuation of an await runs as a microtask, before any other event,   *)
(* which TaskBoundary expresses.                                           *)
(***************************************************************************)
\* files 1 and 3 are images the browser decodes, file 2 is one it cannot decode
Files == {1, 2, 3}
DecodableFiles == {1, 3}

\* m.status of a logger message
Recognizing == "recognizing text"
LoggerStatuses == {Recognizing, "loading language traineddata"}
\* m.progress in tenths
EngineTenths == {0, 5, 10}
\* what Tesseract.recognize may reject with
EngineErrors == {"worker failed"}
\* what the text of the image yields: <<regions, spines>>
Yields == {<<1, 0>>, <<1, 1>>}

\* line 686
GenericError == "Failed to process image with advanced OCR"

\* the scan leaves the variables of the other specifications alone
ScanOnly == UNCHANGED <<ocrVars, cleanVars, orientVars, appVars>>

\* no promise continuation is waiting to run
TaskBoundary == \A c \in Calls : spc[c] \notin {"resolved", "rejected"}

\* the photo-scan button of AddBookForm: setShowPhotoScan(true)
OpenModal ==
    /\ TaskBoundary
    /\ ~isOpen
    /\ isOpen' = TRUE
    /\ UNCHANGED <<interruptions, selectedFile, preview, previewReaders, scanning, scanProgress,
                   detectedBooks, textRegions, visualizationUrl, alerts,
                   callVars, vizVars>>
    /\ ScanOnly

\* handleFileSelect, lines 35-50; the input is rendered when no file is selected
SelectFile(f) ==
    /\ TaskBoundary
    /\ isOpen /\ selectedFile = NoFile
    /\ selectedFile' = f
    /\ previewReaders' = previewReaders \cup {f}
    /\ detectedBooks' = NoDetection
    /\ textRegions' = NoDetection
    /\ visualizationUrl' = NoCall
    /\ UNCHANGED <<interruptions, isOpen, preview, scanning, scanProgress, alerts, callVars,
                   vizVars>>
    /\ ScanOnly

\* reader.onload of handleFileSelect, lines 40-42
PreviewLoaded(f) ==
    /\ TaskBoundary
    /\ f \in previewReaders
    /\ preview' = f
    /\ previewReaders' = previewReaders \ {f}
    /\ UNCHANGED <<interruptions, isOpen, selectedFile, scanning, scanProgress, detectedBooks,
                   textRegions, visualizationUrl, alerts, callVars, vizVars>>
    /\ ScanOnly

\* the Change Photo button, lines 222-232 (rendered when a file is selected)
ChangePhoto ==
    /\ TaskBoundary
    /\ isOpen /\ selectedFile # NoFile
    /\ interruptions < MaxInterruptions
    /\ interruptions' = interruptions + 1
    /\ selectedFile' = NoFile
    /\ preview' = NoFile
    /\ detectedBooks' = NoDetection
    /\ visualizationUrl' = NoCall
    /\ UNCHANGED <<isOpen, previewReaders, scanning, scanProgress, textRegions,
                   alerts, callVars, vizVars>>
    /\ ScanOnly

\* handleClose, lines 154-165
HandleClose ==
    /\ TaskBoundary
    /\ isOpen
    /\ interruptions < MaxInterruptions
    /\ interruptions' = interruptions + 1
    /\ selectedFile' = NoFile
    /\ preview' = NoFile
    /\ detectedBooks' = NoDetection
    /\ textRegions' = NoDetection
    /\ visualizationUrl' = NoCall
    /\ scanning' = FALSE
    /\ scanProgress' = 0
    /\ isOpen' = FALSE
    /\ UNCHANGED <<previewReaders, alerts, callVars, vizVars>>
    /\ ScanOnly

\* the scan button (line 243) and performAdvancedOCR lines 52-60, running
\* processBookshelfImage up to its first await (lines 630-633)
StartScan ==
    /\ TaskBoundary
    /\ isOpen /\ selectedFile # NoFile
    /\ ~scanning /\ detectedBooks.count = 0
    /\ call < MaxScans
    /\ scanning' = TRUE
    /\ detectedBooks' = NoDetection
    /\ call' = call + 1
    /\ callFile' = [callFile EXCEPT ![call'] = selectedFile]
    /\ callPreview' = [callPreview EXCEPT ![call'] = preview]
    /\ progress' = [progress EXCEPT ![call'] = <<10>>]
    /\ scanProgress' = 10
    /\ spc' = [spc EXCEPT ![call'] = "preprocess"]
    /\ UNCHANGED <<interruptions, isOpen, selectedFile, preview, previewReaders, textRegions,
                   visualizationUrl, alerts, canvas, processedImageUrl,
                   engineProgress, loggerEvents, settled, logged, vizVars>>
    /\ ScanOnly

\* a variant of DrawOnCanvas: the canvas not cleared by the assignment of
\* its width, the pixels of the former image showing through
DrawOnCanvasNoClear(old, f) == IF old = NoFile THEN f ELSE old

\* lines 401-425 on this.canvas: the assignment of width and height clears
\* the canvas, drawImage and putImageData then fill it from the image alone
DrawOnCanvas(old, f) == f

\* img.onload of preprocessImage (lines 399-428), one handler without await,
\* then the call goes on to Tesseract.recognize (lines 633-637).  The promise
\* has no reject path and neither the image nor the reader an onerror: for a
\* file that does not decode it stays pending.
PreprocessDone(c) ==
    /\ spc[c] = "preprocess"
    /\ callFile[c] \in DecodableFiles
    /\ canvas' = DrawOnCanvas(canvas, callFile[c])
    /\ processedImageUrl' = [processedImageUrl EXCEPT ![c] = canvas']
    /\ progress' = [progress EXCEPT ![c] = Append(@, 30)]
    /\ scanProgress' = 30
    /\ spc' = [spc EXCEPT ![c] = "recognize"]
    /\ UNCHANGED <<interruptions, isOpen, selectedFile, preview, previewReaders, scanning,
                   detectedBooks, textRegions, visualizationUrl, alerts, call,
                   callFile, callPreview, engineProgress, loggerEvents, settled,
                   logged, vizVars>>
    /\ ScanOnly

\* a variant of LoggerReports: line 639 without the status test
LoggerReportsAlways(status) == TRUE

\* line 639: m.status === 'recognizing text' (onProgress is always passed)
LoggerReports(status) == status = Recognizing

\* the logger of lines 638-642 receives a message.  The engine's progress of
\* recognition never decreases; other statuses carry a progress of their own.
\* 30 + m.progress * 50 is 30 + 5 p for p tenths, an integer that
\* Math.round of line 62 leaves as it is.
EngineLog(c, status, p) ==
    /\ spc[c] = "recognize"
    /\ loggerEvents < MaxLoggerEvents
    /\ status = Recognizing => p >= engineProgress[c]
    /\ loggerEvents' = loggerEvents + 1
    /\ engineProgress' = IF status = Recognizing
                         THEN [engineProgress EXCEPT ![c] = p] ELSE engineProgress
    /\ progress' = IF LoggerReports(status)
                   THEN [progress EXCEPT ![c] = Append(@, 30 + 5 * p)] ELSE progress
    /\ scanProgress' = IF LoggerReports(status) THEN 30 + 5 * p ELSE scanProgress
    /\ UNCHANGED <<interruptions, isOpen, selectedFile, preview, previewReaders, scanning,
                   detectedBooks, textRegions, visualizationUrl, alerts, canvas,
                   call, spc, callFile, callPreview, processedImageUrl, settled,
                   logged, vizVars>>
    /\ ScanOnly

\* Tesseract.recognize resolves: lines 645-682 up to the return
RecognizeResolves(c, y) ==
    /\ spc[c] = "recognize"
    /\ progress' = [progress EXCEPT ![c] = @ \o <<85, 90, 100>>]
    /\ scanProgress' = 100
    /\ settled' = [settled EXCEPT ![c] =
                      [kind |-> "result", message |-> "",
                       bookSpines |-> [call |-> c, image |-> processedImageUrl[c],
                                       count |-> y[2]],
                       textRegions |-> [call |-> c, image |-> processedImageUrl[c],
                                        count |-> y[1]],
                       processedImageUrl |-> processedImageUrl[c]]]
    /\ spc' = [spc EXCEPT ![c] = "resolved"]
    /\ UNCHANGED <<interruptions, isOpen, selectedFile, preview, previewReaders, scanning,
                   detectedBooks, textRegions, visualizationUrl, alerts, canvas,
                   call, callFile, callPreview, processedImageUrl, engineProgress,
                   loggerEvents, logged, vizVars>>
    /\ ScanOnly

\* a variant of RecognizeRejects: the catch of line 684 rethrowing what it caught
RecognizeRejectsRethrow(c, e) ==
    /\ spc[c] = "recognize"
    /\ logged' = [logged EXCEPT ![c] = e]
    /\ settled' = [settled EXCEPT ![c] =
                      [NoSettle EXCEPT !.kind = "error", !.message = e]]
    /\ spc' = [spc EXCEPT ![c] = "rejected"]
    /\ UNCHANGED <<modalVars, canvas, call, callFile, callPreview,
                   processedImageUrl, progress, engineProgress, loggerEvents,
                   vizVars>>
    /\ ScanOnly

\* Tesseract.recognize rejects with e: the catch of lines 684-687
RecognizeRejects(c, e) ==
    /\ spc[c] = "recognize"
    /\ logged' = [logged EXCEPT ![c] = e]
    /\ settled' = [settled EXCEPT ![c] =
                      [NoSettle EXCEPT !.kind = "error", !.message = GenericError]]
    /\ spc' = [spc EXCEPT ![c] = "rejected"]
    /\ UNCHANGED <<modalVars, canvas, call, callFile, callPreview,
                   processedImageUrl, progress, engineProgress, loggerEvents,
                   vizVars>>
    /\ ScanOnly

\* performAdvancedOCR after the await: lines 66-88, then finally (93-96).
\* createVisualization is called from img.onload and is not awaited here.
ScanSucceeded(c) ==
    /\ spc[c] = "resolved"
    /\ detectedBooks' = settled[c].bookSpines
    /\ textRegions' = settled[c].textRegions
    /\ IF callPreview[c] # NoFile
       THEN /\ viz' = [viz EXCEPT ![c] = "loading"]
            /\ vizImage' = [vizImage EXCEPT ![c] = callPreview[c]]
       ELSE UNCHANGED vizVars
    /\ scanning' = FALSE
    /\ scanProgress' = 0
    /\ spc' = [spc EXCEPT ![c] = "done"]
    /\ UNCHANGED <<interruptions, isOpen, selectedFile, preview, previewReaders,
                   visualizationUrl, alerts, canvas, call, callFile, callPreview,
                   processedImageUrl, progress, engineProgress, loggerEvents,
                   settled, logged>>
    /\ ScanOnly

\* performAdvancedOCR when the await throws: catch (90-92), then finally (93-96)
ScanFailed(c) ==
    /\ spc[c] = "rejected"
    /\ alerts' = alerts \cup {c}
    /\ scanning' = FALSE
    /\ scanProgress' = 0
    /\ spc' = [spc EXCEPT ![c] = "done"]
    /\ UNCHANGED <<interruptions, isOpen, selectedFile, preview, previewReaders, detectedBooks,
                   textRegions, visualizationUrl, canvas, call, callFile,
                   callPreview, processedImageUrl, progress, engineProgress,
                   loggerEvents, settled, logged, vizVars>>
    /\ ScanOnly

\* the image of lines 75-84 loads: its onload calls createVisualization
VizImageLoads(c) ==
    /\ TaskBoundary
    /\ viz[c] = "loading" /\ vizImage[c] \in DecodableFiles
    /\ viz' = [viz EXCEPT ![c] = "rendering"]
    /\ UNCHANGED <<modalVars, callVars, vizImage>>
    /\ ScanOnly

\* the image of lines 75-84 fails to load (any load may fail, whatever the
\* file): onload never runs, and no onerror is set
VizImageStalls(c) ==
    /\ TaskBoundary
    /\ viz[c] = "loading"
    /\ viz' = [viz EXCEPT ![c] = "stalled"]
    /\ UNCHANGED <<modalVars, callVars, vizImage>>
    /\ ScanOnly

\* createVisualization resolves (line 739) and line 83 stores the URL
VizRenders(c) ==
    /\ TaskBoundary
    /\ viz[c] = "rendering"
    /\ viz' = [viz EXCEPT ![c] = "shown"]
    /\ visualizationUrl' = c
    /\ UNCHANGED <<interruptions, isOpen, selectedFile, preview, previewReaders, scanning,
                   scanProgress, detectedBooks, textRegions, alerts, callVars,
                   vizImage>>
    /\ ScanOnly

\* the promise of createVisualization (lines 698-744) never resolves: its
\* image does not load, or its onload handler throws while drawing
VizHangs(c) ==
    /\ TaskBoundary
    /\ viz[c] = "rendering"
    /\ viz' = [viz EXCEPT ![c] = "hung"]
    /\ UNCHANGED <<modalVars, callVars, vizImage>>
    /\ ScanOnly

\* a variant of VizThrows: createVisualization awaited inside the try of
\* performAdvancedOCR, so that its failure reaches the catch of line 90
VizThrowsAwaited(c) ==
    /\ TaskBoundary
    /\ viz[c] = "rendering"
    /\ viz' = [viz EXCEPT ![c] = "threw"]
    /\ alerts' = alerts \cup {c}
    /\ UNCHANGED <<interruptions, isOpen, selectedFile, preview, previewReaders, scanning,
                   scanProgress, detectedBooks, textRegions, visualizationUrl,
                   callVars, vizImage>>
    /\ ScanOnly

\* createVisualization rejects: the await of line 77 throws inside the async
\* onload handler, whose promise nobody observes
VizThrows(c) ==
    /\ TaskBoundary
    /\ viz[c] = "rendering"
    /\ viz' = [viz EXCEPT ![c] = "threw"]
    /\ UNCHANGED <<modalVars, callVars, vizImage>>
    /\ ScanOnly

InitScan == ScanInit /\ OcrIdle /\ CleanIdle /\ OrientIdle /\ AppIdle

\* the steps of one call of processBookshelfImage and of its caller
CallStep(c) ==
    \/ PreprocessDone(c)
    \/ \E status \in LoggerStatuses, p \in EngineTenths : EngineLog(c, status, p)
    \/ \E y \in Yields : RecognizeResolves(c, y)
    \/ \E e \in EngineErrors : RecognizeRejects(c, e)
    \/ ScanSucceeded(c)
    \/ ScanFailed(c)

\* the steps of the visualization of one call
VizStep(c) ==
    \/ VizImageLoads(c)
    \/ VizImageStalls(c)
    \/ VizRenders(c)
    \/ VizHangs(c)
    \/ VizThrows(c)

NextScan ==
    \/ OpenModal
    \/ \E f \in Files : SelectFile(f)
    \/ \E f \in Files : PreviewLoaded(f)
    \/ ChangePhoto
    \/ HandleClose
    \/ StartScan
    \/ \E c \in Calls : CallStep(c)
    \/ \E c \in Calls : VizStep(c)

SpecScan == InitScan /\ [][NextScan]_vars

\* the event loop runs every continuation that is ready, and the recognition
\* engine settles every call made to it; the user is free to do nothing
SpecScanFair == SpecScan /\ \A c \in Calls : WF_vars(CallStep(c))

(***************************************************************************)
(* libraryReducer: books and users under ADD, DELETE, BORROW and RETURN.   *)
(* Ids come from uuidv4 and are never issued twice.  The cards offer       *)
(* BORROW_BOOK for an available book and a listed user, RETURN_BOOK for a  *)
(* borrowed book.                                                          *)
(***************************************************************************)
\* the scan modal and the OCR calls take no part
LibOnly ==
    UNCHANGED <<ocrVars, cleanVars, orientVars, scanVars, storeVars, mergeVars, apiVars>>

\* new Date().toISOString() of line 93
Today == 1

\* a book as the forms create it: isAvailable true (AddBookForm)
NewBook(id) == [id |-> id, isAvailable |-> TRUE, borrowedBy |-> NoUser,
                borrowedDate |-> NoDate]
\* a user as registration creates it: borrowedBooks []
NewUser(id) == [id |-> id, borrowedBooks |-> <<>>]

\* state.books.find(b => b.id === id), NoBook for undefined
NoBook == [id |-> 0, isAvailable |-> TRUE, borrowedBy |-> NoUser,
           borrowedDate |-> NoDate]
FindBook(bs, id) ==
    IF \E k \in 1..Len(bs) : bs[k].id = id
    THEN bs[CHOOSE k \in 1..Len(bs) :
                bs[k].id = id /\ \A m \in 1..(k - 1) : bs[m].id # id]
    ELSE NoBook

\* lines 87-96
BorrowedBooks(bs, bookId, userId) ==
    LET F(b) == IF b.id = bookId
                THEN [b EXCEPT !.isAvailable = FALSE, !.borrowedBy = userId,
                               !.borrowedDate = Today]
                ELSE b
    IN  [k \in 1..Len(bs) |-> F(bs[k])]

\* lines 97-101
BorrowedUsers(us, bookId, userId) ==
    LET F(u) == IF u.id = userId
                THEN [u EXCEPT !.borrowedBooks = Append(@, bookId)]
                ELSE u
    IN  [k \in 1..Len(us) |-> F(us[k])]

\* lines 107-111
ReturnedBooks(bs, bookId) ==
    LET F(b) == IF b.id = bookId
                THEN [b EXCEPT !.isAvailable = TRUE, !.borrowedBy = NoUser,
                               !.borrowedDate = NoDate]
                ELSE b
    IN  [k \in 1..Len(bs) |-> F(bs[k])]

\* a variant of ReturnedUsers: the borrower's whole list emptied
ReturnedUsersCleared(us, book, bookId) ==
    LET F(u) == IF book.id # 0 /\ book.borrowedBy = u.id
                THEN [u EXCEPT !.borrowedBooks = <<>>]
                ELSE u
    IN  [k \in 1..Len(us) |-> F(us[k])]

\* lines 112-116: book is what find returned; book?.borrowedBy === user.id
ReturnedUsers(us, book, bookId) ==
    LET Keep(id) == id # bookId
        F(u) == IF book.id # 0 /\ book.borrowedBy = u.id
                THEN [u EXCEPT !.borrowedBooks = SelectSeq(@, Keep)]
                ELSE u
    IN  [k \in 1..Len(us) |-> F(us[k])]

\* what every dispatch does to the history
Dispatched(type, b, u) ==
    /\ lastAction' = [type |-> type, book |-> b, user |-> u]
    /\ prevAction' = lastAction
    /\ pre' = [books |-> books, users |-> users]
    /\ pre2' = pre

\* ADD_BOOK, line 58
AddBook ==
    /\ bookIds < MaxBooks
    /\ bookIds' = bookIds + 1
    /\ books' = Append(books, NewBook(bookIds'))
    /\ Dispatched("ADD_BOOK", bookIds', NoUser)
    /\ UNCHANGED <<users, userIds>>
    /\ LibOnly

\* ADD_USER, line 72
AddUser ==
    /\ userIds < MaxUsers
    /\ userIds' = userIds + 1
    /\ users' = Append(users, NewUser(userIds'))
    /\ Dispatched("ADD_USER", 0, userIds')
    /\ UNCHANGED <<books, bookIds>>
    /\ LibOnly

\* DELETE_BOOK, lines 66-70
DeleteBook(id) ==
    /\ \E k \in 1..Len(books) : books[k].id = id
    /\ LET Keep(b) == b.id # id IN books' = SelectSeq(books, Keep)
    /\ Dispatched("DELETE_BOOK", id, NoUser)
    /\ UNCHANGED <<users, bookIds, userIds>>
    /\ LibOnly

\* DELETE_USER, lines 80-84
DeleteUser(id) ==
    /\ \E k \in 1..Len(users) : users[k].id = id
    /\ LET Keep(u) == u.id # id IN users' = SelectSeq(users, Keep)
    /\ Dispatched("DELETE_USER", 0, id)
    /\ UNCHANGED <<books, bookIds, userIds>>
    /\ LibOnly

\* BORROW_BOOK, lines 85-102, dispatched by BookCard.handleBorrow
BorrowBook(bookId, userId) ==
    /\ \E k \in 1..Len(books) : books[k].id = bookId /\ books[k].isAvailable
    /\ \E k \in 1..Len(users) : users[k].id = userId
    /\ books' = BorrowedBooks(books, bookId, userId)
    /\ users' = BorrowedUsers(users, bookId, userId)
    /\ Dispatched("BORROW_BOOK", bookId, userId)
    /\ UNCHANGED <<bookIds, userIds>>
    /\ LibOnly

\* RETURN_BOOK, lines 103-118, dispatched by BookCard.handleReturn
ReturnBook(bookId) ==
    /\ \E k \in 1..Len(books) : books[k].id = bookId /\ ~books[k].isAvailable
    /\ books' = ReturnedBooks(books, bookId)
    /\ users' = ReturnedUsers(users, FindBook(books, bookId), bookId)
    /\ Dispatched("RETURN_BOOK", bookId, FindBook(books, bookId).borrowedBy)
    /\ UNCHANGED <<bookIds, userIds>>
    /\ LibOnly

InitLibrary ==
    /\ LibInit
    /\ OcrIdle /\ CleanIdle /\ OrientIdle /\ ScanIdle /\ StoreIdle /\ MergeIdle
    /\ ApiIdle

NextLibrary ==
    \/ AddBook
    \/ AddUser
    \/ \E id \in 1..MaxBooks : DeleteBook(id)
    \/ \E id \in 1..MaxUsers : DeleteUser(id)
    \/ \E b \in 1..MaxBooks, u \in 1..MaxUsers : BorrowBook(b, u)
    \/ \E b \in 1..MaxBooks : ReturnBook(b)

SpecLibrary == InitLibrary /\ [][NextLibrary]_vars

(***************************************************************************)
(* LibraryProvider.saveToStorage and the import handlers that write        *)
(* localStorage themselves.  Books and users are one value, content; the   *)
(* JSON text of { books, users, timestamp } is the pair of content and     *)
(* timestamp, and two texts are equal exactly when both are.  Date.now()   *)
(* has 13 digits, so the string sort of the keys is the numeric one, and a *)
(* handler runs within one millisecond.  setItem may throw (quota); the    *)
(* handlers catch it.                                                      *)
(***************************************************************************)
StoreOnly ==
    UNCHANGED <<ocrVars, cleanVars, orientVars, scanVars, libVars, mergeVars, apiVars>>

Contents == {1, 2}
KeepBackups == 5
\* 0: no setItem throws; 1, 2, 3: the first, second, third setItem throws
FailPoints == 0..3

\* JSON.stringify({ books, users, timestamp: Date.now() }), line 145-146
Serialized(c, t) == [content |-> c, timestamp |-> t]

\* localStorage.setItem(`libraryData_${t}`, ...): the key is there afterwards
SetStamped(st, t) == st \cup {t}

\* a variant of CleanUp: the newest keys removed
CleanUpNewest(st) ==
    IF Cardinality(st) > KeepBackups
    THEN {k \in st : Cardinality({m \in st : m < k}) < KeepBackups}
    ELSE st

\* lines 168-174: sort the keys, remove all but the last five
CleanUp(st) ==
    IF Cardinality(st) > KeepBackups
    THEN {k \in st : Cardinality({m \in st : m > k}) < KeepBackups}
    ELSE st

\* time passes
Tick ==
    /\ now < MaxClock
    /\ now' = now + 1
    /\ lastCall' = [NoHandler EXCEPT !.op = "tick"]
    /\ UNCHANGED <<content, libraryData, libraryDataBackup, stamped, emergency,
                   lastSaveRef>>
    /\ StoreOnly

\* a dispatch that changes books or users
Edit(c) ==
    /\ c # content
    /\ content' = c
    /\ lastCall' = [NoHandler EXCEPT !.op = "edit"]
    /\ UNCHANGED <<now, libraryData, libraryDataBackup, stamped, emergency,
                   lastSaveRef>>
    /\ StoreOnly

\* lines 176-184: the catch block; the emergency setItem may throw as well
EmergencySaved(ok) ==
    emergency' = (ok \/ emergency)

\* saveToStorage, lines 143-187, the text equal to lastSaveRef.current
SaveSkipped ==
    /\ Serialized(content, now) = lastSaveRef
    /\ lastCall' = [op |-> "save", outcome |-> "skipped", removed |-> 0]
    /\ UNCHANGED <<content, now, libraryData, libraryDataBackup, stamped,
                   emergency, lastSaveRef>>
    /\ StoreOnly

\* saveToStorage, lines 143-187, the text new: fail is the setItem that
\* throws, ok whether the emergency save works
SaveWritten(fail, ok) ==
    /\ Serialized(content, now) # lastSaveRef
    /\ fail = 1 => libraryData # NoItem
    /\ fail = 0 => ok
    /\ libraryDataBackup' = IF libraryData # NoItem /\ fail # 1
                            THEN libraryData ELSE libraryDataBackup
    /\ libraryData' = IF fail \in {1, 2} THEN libraryData
                      ELSE Serialized(content, now)
    /\ lastSaveRef' = IF fail \in {1, 2} THEN lastSaveRef
                      ELSE Serialized(content, now)
    /\ stamped' = IF fail = 0
                  THEN CleanUp(SetStamped(stamped, now))
                  ELSE stamped
    /\ IF fail = 0 THEN UNCHANGED emergency ELSE EmergencySaved(ok)
    /\ lastCall' = [op |-> "save",
                    outcome |-> IF fail = 0 THEN "saved"
                                ELSE IF fail = 3 THEN "partly" ELSE "failed",
                    removed |-> IF fail = 0
                                THEN Cardinality(stamped \cup {now})
                                         - Cardinality(stamped')
                                ELSE 0]
    /\ UNCHANGED <<content, now>>
    /\ StoreOnly

\* handleConfirmImport and handleMergeImport: three setItem in one try, no
\* clean-up, then LOAD_DATA; c is the imported or merged content
Import(c, fail) ==
    /\ libraryData' = IF fail = 1 THEN libraryData ELSE Serialized(c, now)
    /\ libraryDataBackup' = IF fail \in {1, 2} THEN libraryDataBackup
                            ELSE Serialized(c, now)
    /\ stamped' = IF fail = 0 THEN SetStamped(stamped, now)
                  ELSE stamped
    /\ content' = c
    /\ lastCall' = [NoHandler EXCEPT !.op = "import"]
    /\ UNCHANGED <<now, emergency, lastSaveRef>>
    /\ StoreOnly

InitStore ==
    /\ StoreInit
    /\ OcrIdle /\ CleanIdle /\ OrientIdle /\ ScanIdle /\ LibIdle /\ MergeIdle
    /\ ApiIdle

NextStore ==
    \/ Tick
    \/ \E c \in Contents : Edit(c)
    \/ SaveSkipped
    \/ \E fail \in FailPoints, ok \in BOOLEAN : SaveWritten(fail, ok)
    \/ \E c \in Contents, fail \in FailPoints : Import(c, fail)

SpecStore == InitStore /\ [][NextStore]_vars

(***************************************************************************)
(* importFromExcel and handleMergeImport.  An entry is its id and whether  *)
(* it came from the file; a row has the ID cell (0 when blank) and, for a  *)
(* user, whether the Email cell is filled.  generateId() is taken to give  *)
(* an id that no row and no held entry has.                                *)
(***************************************************************************)
MergeOnly ==
    UNCHANGED <<ocrVars, cleanVars, orientVars, scanVars, libVars, storeVars, apiVars>>

BlankId == 0
RowIds == {BlankId, 1, 3}
HeldIds == {1, 2}
GeneratedId(k) == 10 + k

BookRows == [ID : RowIds]
UserRows == [ID : RowIds, Email : BOOLEAN]

Held(id) == [id |-> id, imported |-> FALSE]
HeldLists(n) ==
    {h \in SeqsUpTo({Held(id) : id \in HeldIds}, n) :
         \A a, b \in 1..Len(h) : a # b => h[a].id # h[b].id}

\* lines 185-212: every row becomes a book (title and author get defaults,
\* so the validation of line 203 never fails)
importedBooks(rows) ==
    [k \in 1..Len(rows) |->
        [id |-> IF rows[k].ID = BlankId THEN GeneratedId(k) ELSE rows[k].ID,
         imported |-> TRUE]]

\* lines 222-243: a row without an email is reported and left out
importedUsers(rows) ==
    LET HasEmail(r) == r.Email
        kept == SelectSeq([k \in 1..Len(rows) |-> [ID |-> rows[k].ID,
                                                    Email |-> rows[k].Email,
                                                    row |-> k]], HasEmail)
    IN  [k \in 1..Len(kept) |->
            [id |-> IF kept[k].ID = BlankId THEN GeneratedId(kept[k].row)
                    ELSE kept[k].ID,
             imported |-> TRUE]]

\* lines 108-110 and 113-115: the imported entries whose id is not held,
\* appended to the held ones
mergeById(held, imported) ==
    LET existingIds == {held[k].id : k \in 1..Len(held)}
        IsNew(e) == e.id \notin existingIds
    IN  held \o SelectSeq(imported, IsNew)

\* handleMergeImport, lines 104-147; saved says whether setItem succeeded
MergeImport(saved) ==
    /\ ~mergeLoaded.done
    /\ LET payload == [done |-> TRUE,
                       books |-> mergeById(heldBooks, importedBooks(fileBooks)),
                       users |-> mergeById(heldUsers, importedUsers(fileUsers))]
       IN  /\ mergeLoaded' = payload
           /\ mergeSaved' = IF saved THEN payload ELSE mergeSaved
    /\ UNCHANGED <<heldBooks, heldUsers, fileBooks, fileUsers>>
    /\ MergeOnly

InitMerge ==
    /\ heldBooks \in HeldLists(2)
    /\ heldUsers \in HeldLists(1)
    /\ fileBooks \in SeqsUpTo(BookRows, MaxRows)
    /\ fileUsers \in SeqsUpTo(UserRows, MaxRows - 1)
    /\ mergeSaved = NoPayload /\ mergeLoaded = NoPayload
    /\ OcrIdle /\ CleanIdle /\ OrientIdle /\ ScanIdle /\ LibIdle /\ StoreIdle
    /\ ApiIdle

NextMerge == \E saved \in BOOLEAN : MergeImport(saved)

SpecMerge == InitMerge /\ [][NextMerge]_vars

(***************************************************************************)
(* The API operations of the library context.  Each is an async function   *)
(* of one shape: SET_LOADING true, await fetch, dispatch the data or, in   *)
(* the catch, SET_ERROR, and SET_LOADING false in the finally.  The        *)
(* context hands them to every component; nothing keeps a caller from      *)
(* calling one while another is in flight.                                 *)
(***************************************************************************)
ApiOnly ==
    UNCHANGED <<ocrVars, cleanVars, orientVars, scanVars, libVars, storeVars, mergeVars>>

ApiKinds == {"loadFromAPI", "addBookToAPI", "updateBookInAPI", "deleteBookFromAPI",
             "addUserToAPI", "updateUserInAPI", "deleteUserFromAPI"}

\* the payload of SET_ERROR in the catch of each operation
ErrorOf(kind) ==
    CASE kind = "loadFromAPI" -> "Failed to load data from API"
      [] kind = "addBookToAPI" -> "Failed to add book to API"
      [] kind = "updateBookInAPI" -> "Failed to update book in API"
      [] kind = "deleteBookFromAPI" -> "Failed to delete book from API"
      [] kind = "addUserToAPI" -> "Failed to add user to API"
      [] kind = "updateUserInAPI" -> "Failed to update user in API"
      [] kind = "deleteUserFromAPI" -> "Failed to delete user from API"

\* the operation is called: SET_LOADING true, then the fetch is awaited
ApiCall(o, kind) ==
    /\ api[o] # "inflight"
    /\ api' = [api EXCEPT ![o] = "inflight"]
    /\ apiKind' = [apiKind EXCEPT ![o] = kind]
    /\ loading' = TRUE
    /\ UNCHANGED error
    /\ ApiOnly

\* the responses arrive: the data is dispatched, then finally SET_LOADING false
ApiSucceeds(o) ==
    /\ api[o] = "inflight"
    /\ api' = [api EXCEPT ![o] = "ok"]
    /\ loading' = FALSE
    /\ UNCHANGED <<apiKind, error>>
    /\ ApiOnly

\* fetch or json() rejects: SET_ERROR in the catch, then finally SET_LOADING false
ApiFails(o) ==
    /\ api[o] = "inflight"
    /\ api' = [api EXCEPT ![o] = "failed"]
    /\ error' = ErrorOf(apiKind[o])
    /\ loading' = FALSE
    /\ UNCHANGED apiKind
    /\ ApiOnly

InitApi ==
    /\ ApiInit
    /\ OcrIdle /\ CleanIdle /\ OrientIdle /\ ScanIdle /\ LibIdle /\ StoreIdle
    /\ MergeIdle

NextApi ==
    \/ \E o \in Ops, kind \in ApiKinds : ApiCall(o, kind)
    \/ \E o \in Ops : ApiSucceeds(o)
    \/ \E o \in Ops : ApiFails(o)

SpecApi == InitApi /\ [][NextApi]_vars

(***************************************************************************)
(* Vocabulary of the properties.                                           *)
(***************************************************************************)
\* groupWordsIntoRegions has returned
GroupReturned == pc \in {"detect", "detectScan", "done"}
\* detectBookSpines has returned
Done == pc = "done"

\* every (region, position) pair of a list of regions' words lists
WordSlots == UNION {{<<k, m>> : m \in 1..Len(regions[k].words)} : k \in 1..Len(regions)}
\* every (candidate, position) pair of the candidates' textRegions lists
CandidateSlots ==
    UNION {{<<k, m>> : m \in 1..Len(candidates[k].spine.textRegions)} :
              k \in 1..Len(candidates)}
\* every (spine, position) pair of the returned spines' textRegions lists
ResultSlots == UNION {{<<k, m>> : m \in 1..Len(result[k].textRegions)} : k \in 1..Len(result)}

Range(f) == {f[x] : x \in DOMAIN f}

\* candidate c was returned
Returned(c) == \E k \in 1..Len(result) : result[k].textRegions = c.spine.textRegions

\* the square of the distance between two centers, times 4
SquaredDistance4(a, b) ==
    (CenterX2(b) - CenterX2(a)) * (CenterX2(b) - CenterX2(a))
        + (CenterY2(b) - CenterY2(a)) * (CenterY2(b) - CenterY2(a))
\* the square of 2 * avgHeight, times 4
SquaredThreshold4(a, b) ==
    (2 * (Height(a) + Height(b))) * (2 * (Height(a) + Height(b)))

RECURSIVE SumOver(_, _)
SumOver(f, S) ==
    IF S = {} THEN 0
    ELSE LET x == CHOOSE y \in S : TRUE IN f[x] + SumOver(f, S \ {x})

\* the pairwise running average of c[1..n], times 2^(n-1):
\* c1 + c2 + 2 c3 + 4 c4 + ...
PairwiseNumerator(c) ==
    c[1] + SumOver([k \in 2..Len(c) |-> (2 ^ (k - 2)) * c[k]], 2..Len(c))

(***************************************************************************)
(* C1. The regions returned by groupWordsIntoRegions partition the input   *)
(* words: each word index stands in the words list of exactly one region,  *)
(* exactly once, and every entry of a words list is an input word.         *)
(***************************************************************************)
C1_WordsPartitioned ==
    GroupReturned =>
        /\ \A n \in 1..Len(words) :
               Cardinality({sl \in WordSlots : regions[sl[1]].words[sl[2]] = n}) = 1
        /\ \A sl \in WordSlots : regions[sl[1]].words[sl[2]] \in 1..Len(words)

\* three words grouped into two regions, one of them of two words
C1_Witness ==
    /\ Done /\ Len(words) = 3 /\ Len(regions) = 2
    /\ \E k \in 1..2 : Len(regions[k].words) = 2

(***************************************************************************)
(* C2. detectBookSpines assigns every input region to exactly one spine    *)
(* candidate; a region stands in at most one returned spine, at most once; *)
(* a returned spine holds all the regions of its candidate, and a region   *)
(* is in no returned spine only if its candidate failed the filter.        *)
(***************************************************************************)
C2_RegionsPartitioned ==
    Done =>
        /\ \A r \in 1..Len(regions) :
               /\ Cardinality({sl \in CandidateSlots :
                      candidates[sl[1]].spine.textRegions[sl[2]] = r}) = 1
               /\ Cardinality({sl \in ResultSlots :
                      result[sl[1]].textRegions[sl[2]] = r}) <= 1
        /\ \A k \in 1..Len(candidates) :
               LET c == candidates[k].spine
               IN  \/ Returned(candidates[k])
                   \/ /\ ~(Len(c.title) >= 3 /\ c.confidence > 30 * ConfScale)
                      /\ \A sl \in ResultSlots :
                             result[sl[1]].textRegions[sl[2]] \notin Range(c.textRegions)
        /\ \A k \in 1..Len(result) :
               \E n \in 1..Len(candidates) :
                   candidates[n].spine.textRegions = result[k].textRegions

\* a candidate of two regions dropped whole, beside a returned one
C2_Witness ==
    /\ Done
    /\ \E k \in 1..Len(candidates) :
           Len(candidates[k].spine.textRegions) = 2 /\ ~Returned(candidates[k])
    /\ \E k \in 1..Len(candidates) : Returned(candidates[k])

(***************************************************************************)
(* C3. In groupWordsIntoRegions an unconsumed later word j is merged into  *)
(* the region seeded by word i exactly when the distance between the       *)
(* centers of word i's own box and word j's box is strictly less than      *)
(* twice the mean of their heights; a word that is not merged leaves the   *)
(* region as it was.                                                       *)
(***************************************************************************)
C3_MergedIffNearSeed ==
    [][(pc = "groupScan" /\ j <= Len(words) /\ j \notin used) =>
          LET a == words[i].bbox
              b == words[j].bbox
              near == /\ Height(a) + Height(b) > 0
                      /\ SquaredDistance4(a, b) < SquaredThreshold4(a, b)
          IN  /\ (j \in used') <=> near
              /\ near => region'.words = Append(region.words, j)
              /\ ~near => region' = region]_vars

\* a region that grew, and a later word at distance exactly 2 avgHeight from
\* the seed, free when the seed was scanned, that stayed out of it
C3_Witness ==
    /\ GroupReturned
    /\ \E k \in 1..Len(regions) :
           /\ Len(regions[k].words) >= 2
           /\ \E n \in (regions[k].words[1] + 1)..Len(words) :
                  /\ \A q \in 1..k : n \notin Range(regions[q].words)
                  /\ SquaredDistance4(words[regions[k].words[1]].bbox, words[n].bbox)
                         = SquaredThreshold4(words[regions[k].words[1]].bbox, words[n].bbox)

(***************************************************************************)
(* C4. A spine candidate is returned if and only if its cleaned title has  *)
(* at least 3 characters and its confidence is strictly above 30.          *)
(***************************************************************************)
C4_AcceptanceFilter ==
    Done =>
        \A k \in 1..Len(candidates) :
            /\ candidates[k].spine.title = cleanBookTitle(candidates[k].rawTitle)
            /\ Returned(candidates[k]) <=>
                   /\ Len(cleanBookTitle(candidates[k].rawTitle)) >= 3
                   /\ candidates[k].spine.confidence > 30 * ConfScale

\* one candidate rejected at confidence exactly 30 with a long title, one
\* rejected for a title of length 2 at confidence 40
C4_Witness ==
    /\ Done
    /\ \E k \in 1..Len(candidates) :
           /\ candidates[k].spine.confidence = 30 * ConfScale
           /\ Len(candidates[k].spine.title) >= 3
           /\ ~Returned(candidates[k])
    /\ \E k \in 1..Len(candidates) :
           /\ candidates[k].spine.confidence = 40 * ConfScale
           /\ Len(candidates[k].spine.title) = 2
           /\ ~Returned(candidates[k])

(***************************************************************************)
(* C5. The returned list is sorted top of image first: the vertical center *)
(* of each spine is at most that of the next.                              *)
(***************************************************************************)
C5_SortedByCenterY ==
    Done =>
        \A k \in 1..(Len(result) - 1) :
            CenterY2(result[k].bbox) <= CenterY2(result[k + 1].bbox)

\* two spines returned that were pushed lower one first
C5_Witness ==
    /\ Done /\ Len(result) >= 2
    /\ \E k, n \in 1..Len(candidates) :
           /\ k < n /\ Returned(candidates[k]) /\ Returned(candidates[n])
           /\ CenterY2(candidates[k].spine.bbox) > CenterY2(candidates[n].spine.bbox)

(***************************************************************************)
(* C6. cleanBookTitle is idempotent: cleaning a cleaned title changes      *)
(* nothing.                                                                *)
(***************************************************************************)
C6_CleanIdempotent == cleanCalls = 2 => recleaned = cleaned

(***************************************************************************)
(* C7. determineOrientation returns horizontal for an empty list; for a    *)
(* non-empty list it returns horizontal exactly when the confidences of    *)
(* the words with width > 1.5 height sum to strictly more than those of    *)
(* the words with height > 1.5 width, and vertical otherwise.              *)
(***************************************************************************)
WideScore(ws) ==
    SumOver([k \in 1..Len(ws) |-> ws[k].confidence],
            {k \in 1..Len(ws) : 2 * Width(ws[k].bbox) > 3 * Height(ws[k].bbox)})
TallScore(ws) ==
    SumOver([k \in 1..Len(ws) |-> ws[k].confidence],
            {k \in 1..Len(ws) : 2 * Height(ws[k].bbox) > 3 * Width(ws[k].bbox)})

C7_Orientation ==
    ocalled =>
        oresult = IF Len(owords) = 0 THEN "horizontal"
                  ELSE IF WideScore(owords) > TallScore(owords) THEN "horizontal"
                  ELSE "vertical"

\* equal, non-zero scores: vertical
C7_Witness ==
    /\ ocalled /\ Len(owords) > 0
    /\ WideScore(owords) = TallScore(owords) /\ WideScore(owords) > 0
    /\ oresult = "vertical"

(***************************************************************************)
(* C8. In detectBookSpines an unused later region j is merged into the     *)
(* spine seeded by region i exactly when their horizontal centers differ   *)
(* by less than 50 and their vertical centers by less than 3 times the     *)
(* mean of their heights, on the regions' own boxes; the 30-pixel check    *)
(* plays no part.                                                          *)
(***************************************************************************)
C8_MergedIffAligned ==
    [][(pc = "detectScan" /\ j <= Len(regions) /\ j \notin used) =>
          LET a == regions[i].bbox
              b == regions[j].bbox
              aligned == /\ Abs(CenterX2(a) - CenterX2(b)) < 2 * 50
                         /\ Abs(CenterY2(a) - CenterY2(b)) < 3 * (Height(a) + Height(b))
          IN  /\ (j \in used') <=> aligned
              /\ aligned => spine'.textRegions = Append(spine.textRegions, j)
              /\ ~aligned => spine' = spine]_vars

\* a spine holding a region 30 pixels or more below or above its seed, and
\* one holding a region within 30 pixels
C8_Witness ==
    /\ Done
    /\ \E k \in 1..Len(candidates) :
           LET tr == candidates[k].spine.textRegions
           IN  \E m \in 2..Len(tr) :
                   Abs(CenterY2(regions[tr[1]].bbox) - CenterY2(regions[tr[m]].bbox))
                       >= 2 * 30
    /\ \E k \in 1..Len(candidates) :
           LET tr == candidates[k].spine.textRegions
           IN  \E m \in 2..Len(tr) :
                   Abs(CenterY2(regions[tr[1]].bbox) - CenterY2(regions[tr[m]].bbox))
                       < 2 * 30

(***************************************************************************)
(* C9. In the title of every spine (before cleanup) the texts of its       *)
(* regions stand top to bottom: in non-decreasing order of bbox.y0.        *)
(***************************************************************************)
C9_TitleTopToBottom ==
    \A k \in 1..Len(candidates) :
        LET o == candidates[k].order
        IN  \A a, b \in 1..Len(o) :
                a < b => regions[o[a]].bbox.y0 <= regions[o[b]].bbox.y0

(***************************************************************************)
(* C10. A region's confidence is the pairwise running average of its       *)
(* words' confidences in merge order, a spine's confidence the same over   *)
(* its regions' confidences, and the filter compares that value with 30.   *)
(***************************************************************************)
C10_RunningAverage ==
    GroupReturned =>
        /\ \A k \in 1..Len(regions) :
               LET ws == regions[k].words
               IN  regions[k].confidence * (2 ^ (Len(ws) - 1))
                       = PairwiseNumerator([m \in 1..Len(ws) |-> words[ws[m]].confidence])
        /\ \A k \in 1..Len(candidates) :
               LET tr == candidates[k].spine.textRegions
                   v == candidates[k].spine.confidence
               IN  /\ v * (2 ^ (Len(tr) - 1))
                          = PairwiseNumerator([m \in 1..Len(tr) |-> regions[tr[m]].confidence])
                   /\ Done /\ Returned(candidates[k]) => v > 30 * ConfScale
                   /\ Done /\ ~Returned(candidates[k])
                          /\ Len(candidates[k].spine.title) >= 3 => v <= 30 * ConfScale

\* a spine of two regions, the first of two words, whose confidence is not
\* the mean of its three words' confidences
C10_Witness ==
    /\ Done
    /\ \E k \in 1..Len(candidates) :
           LET tr == candidates[k].spine.textRegions
           IN  /\ Len(tr) = 2
               /\ Len(regions[tr[1]].words) = 2
               /\ 3 * candidates[k].spine.confidence
                      # words[1].confidence + words[2].confidence + words[3].confidence

\* the history variable titleOrder stands for the title: the title before
\* cleanup is the texts of the regions of order, joined by single spaces
TitleFollowsOrder ==
    \A k \in 1..Len(candidates) :
        candidates[k].rawTitle
            = JoinSpace([m \in 1..Len(candidates[k].order) |->
                            regions[candidates[k].order[m]].text])

(***************************************************************************)
(* C11. The box of every region is the union of its words' boxes and the   *)
(* box of every spine the union of its regions' boxes: x0, y0 the minima,  *)
(* x1, y1 the maxima; so every constituent lies inside its parent and      *)
(* x0 <= x1, y0 <= y1 for every region and spine.                          *)
(***************************************************************************)
MinOf(S) == CHOOSE x \in S : \A y \in S : x <= y
MaxOf(S) == CHOOSE x \in S : \A y \in S : x >= y
BoxUnion(B) ==
    [x0 |-> MinOf({b.x0 : b \in B}), y0 |-> MinOf({b.y0 : b \in B}),
     x1 |-> MaxOf({b.x1 : b \in B}), y1 |-> MaxOf({b.y1 : b \in B})]
Inside(b, c) == c.x0 <= b.x0 /\ c.y0 <= b.y0 /\ b.x1 <= c.x1 /\ b.y1 <= c.y1
WellFormed(b) == b.x0 <= b.x1 /\ b.y0 <= b.y1

C11_BoxesAreUnions ==
    (GroupReturned /\ \A n \in 1..Len(words) : WellFormed(words[n].bbox)) =>
        /\ \A k \in 1..Len(regions) :
               LET ws == Range(regions[k].words)
               IN  /\ regions[k].bbox = BoxUnion({words[n].bbox : n \in ws})
                   /\ \A n \in ws : Inside(words[n].bbox, regions[k].bbox)
                   /\ WellFormed(regions[k].bbox)
        /\ \A k \in 1..Len(candidates) :
               LET rs == Range(candidates[k].spine.textRegions)
                   b == candidates[k].spine.bbox
               IN  /\ b = BoxUnion({regions[r].bbox : r \in rs})
                   /\ \A r \in rs : Inside(regions[r].bbox, b)
                   /\ WellFormed(b)
        /\ \A k \in 1..Len(result) :
               \E n \in 1..Len(candidates) :
                   /\ candidates[n].spine.textRegions = result[k].textRegions
                   /\ candidates[n].spine.bbox = result[k].bbox

\* a returned spine of two regions, wider and taller than its seed region,
\* whose seed region is larger than its seed word
C11_Witness ==
    /\ Done
    /\ \E k \in 1..Len(result) :
           LET tr == result[k].textRegions
               seed == regions[tr[1]]
           IN  /\ Len(tr) = 2
               /\ result[k].bbox.x1 > seed.bbox.x1
               /\ result[k].bbox.y1 > seed.bbox.y1
               /\ Len(seed.words) = 2
               /\ seed.bbox # words[seed.words[1]].bbox

(***************************************************************************)
(* C12. The text of every region is the texts of the entries of its words  *)
(* list joined by single spaces, in merge order: the seed first, then the  *)
(* merged words in ascending input index.  "Harry" at x center 15 and      *)
(* "Potter" at x center 47, both of height 20, give the one region         *)
(* "Harry Potter".                                                         *)
(***************************************************************************)
HarryNear == [text |-> Harry, confidence |-> 90 * ConfScale, bbox |-> Box(0, 0, 30, 20)]
PotterNear == [text |-> Potter, confidence |-> 90 * ConfScale, bbox |-> Box(32, 0, 30, 20)]

C12_RegionText ==
    GroupReturned =>
        /\ \A k \in 1..Len(regions) :
               LET ws == regions[k].words
               IN  /\ regions[k].text = JoinSpace([m \in 1..Len(ws) |-> words[ws[m]].text])
                   /\ \A a, b \in 1..Len(ws) : a < b => ws[a] < ws[b]
        /\ words = <<HarryNear, PotterNear>> =>
               /\ Len(regions) = 1
               /\ regions[1].text = Harry \o <<Space>> \o Potter

\* the example has run
C12_Witness ==
    /\ GroupReturned /\ words = <<HarryNear, PotterNear>>
    /\ regions[1].text = <<"H", "a", "r", "r", "y", " ", "P", "o", "t", "t", "e", "r">>

(***************************************************************************)
(* C13. Every character of the string returned by cleanBookTitle is an     *)
(* ASCII letter, a digit, a space, or one of - : & ' . , ; every other     *)
(* character of the input, the underscore included, is removed.            *)
(***************************************************************************)
AllowedTitleChars == Letters \cup Digits \cup {Space, "-", ":", "&", "'", ".", ","}

C13_OnlyAllowedChars ==
    cleanCalls >= 1 => \A k \in 1..Len(cleaned) : cleaned[k] \in AllowedTitleChars

(***************************************************************************)
(* C14. The string returned by cleanBookTitle never begins with a digit.   *)
(***************************************************************************)
C14_NoLeadingDigit ==
    cleanCalls >= 1 => (cleaned = <<>> \/ ~IsDigit(cleaned[1]))

(***************************************************************************)
(* C15. The string returned by cleanBookTitle is in normal form: no        *)
(* leading or trailing space, no two consecutive spaces, and every         *)
(* space-separated token has at least two characters (or the string is     *)
(* empty); "3   The Lord-of the Rings!!" becomes "The Lord-of the Rings".  *)
(***************************************************************************)
LordOfTheRings ==
    <<"T", "h", "e", " ", "L", "o", "r", "d", "-", "o", "f", " ", "t", "h",
      "e", " ", "R", "i", "n", "g", "s">>

\* the maximal space-free pieces of s, as index intervals
TokenSpans(s) ==
    {<<a, b>> \in (1..Len(s)) \X (1..Len(s)) :
        /\ a <= b
        /\ \A k \in a..b : s[k] # Space
        /\ (a = 1 \/ s[a - 1] = Space)
        /\ (b = Len(s) \/ s[b + 1] = Space)}

NormalForm(s) ==
    \/ s = <<>>
    \/ /\ s[1] # Space /\ s[Len(s)] # Space
       /\ \A k \in 1..(Len(s) - 1) : ~(s[k] = Space /\ s[k + 1] = Space)
       /\ \A k \in 1..Len(s) : s[k] # Tab
       /\ \A sp \in TokenSpans(s) : sp[2] - sp[1] + 1 >= 2

C15_NormalForm ==
    cleanCalls >= 1 =>
        /\ NormalForm(cleaned)
        /\ title = LordOfTheRingsRaw => cleaned = LordOfTheRings

\* the example title has been cleaned
C15_Witness ==
    cleanCalls >= 1 /\ title = LordOfTheRingsRaw /\ cleaned = LordOfTheRings

(***************************************************************************)
(* C16. The orientation of every returned spine is determineOrientation    *)
(* applied to the words of all the regions in its textRegions.             *)
(***************************************************************************)
\* the words of the regions listed in tr, region after region
RECURSIVE WordsOfRegions(_)
WordsOfRegions(tr) ==
    IF tr = <<>> THEN <<>>
    ELSE WordsOf(regions[Head(tr)]) \o WordsOfRegions(Tail(tr))

C16_SpineOrientation ==
    Done => \A k \in 1..Len(result) :
                result[k].orientation =
                    determineOrientation(WordsOfRegions(result[k].textRegions))

(***************************************************************************)
(* C17. A word of zero height (y0 = y1) and positive width adds its        *)
(* confidence to the horizontal score of determineOrientation and nothing  *)
(* to the vertical score; one of zero width adds to neither score, and one *)
(* of negative width adds to the vertical score.                           *)
(***************************************************************************)
ZeroHeight(w) == Height(w.bbox) = 0
HasHeight(w) == ~ZeroHeight(w)

\* the confidences of the zero-height words of ws whose width is in W
ZeroHeightConfidence(ws, W) ==
    SumOver([k \in 1..Len(ws) |-> ws[k].confidence],
            {k \in 1..Len(ws) : ZeroHeight(ws[k]) /\ Width(ws[k].bbox) \in W})

OrientWidths == {Width(w.bbox) : w \in OrientWords}

C17_ZeroHeightByWidth ==
    ocalled =>
        /\ ohscore = horizontalScore(SelectSeq(owords, HasHeight))
                       + ZeroHeightConfidence(owords, {x \in OrientWidths : x > 0})
        /\ ovscore = verticalScore(SelectSeq(owords, HasHeight))
                       + ZeroHeightConfidence(owords, {x \in OrientWidths : x < 0})

\* the statement as first given: every zero-height word scores horizontal
C17_ZeroHeightAlwaysHorizontal ==
    ocalled =>
        /\ ohscore = horizontalScore(SelectSeq(owords, HasHeight))
                       + ZeroHeightConfidence(owords, OrientWidths)
        /\ ovscore = verticalScore(SelectSeq(owords, HasHeight))

\* a call with a zero-height word of each kind of width
C17_Witness ==
    /\ ocalled
    /\ \E a, b, c \in 1..Len(owords) :
           /\ ZeroHeight(owords[a]) /\ Width(owords[a].bbox) > 0
           /\ ZeroHeight(owords[b]) /\ Width(owords[b].bbox) = 0
           /\ ZeroHeight(owords[c]) /\ Width(owords[c].bbox) < 0
    /\ ohscore > 0 /\ ovscore > 0

(***************************************************************************)
(* C18. Within one call of processBookshelfImage the values passed to the  *)
(* progress callback never decrease: 10, 30, the recognition progress      *)
(* scaled into 30..80, then 85, 90 and 100, the engine's own progress      *)
(* being non-decreasing in [0,1].                                          *)
(***************************************************************************)
Milestones == <<85, 90, 100>>

C18_ProgressNonDecreasing ==
    \A c \in Calls :
        /\ \A a, b \in 1..Len(progress[c]) : a < b => progress[c][a] <= progress[c][b]
        /\ Len(progress[c]) >= 1 => progress[c][1] = 10
        /\ Len(progress[c]) >= 2 => progress[c][2] = 30
        /\ LET last == IF settled[c].kind = "result"
                       THEN Len(progress[c]) - 3 ELSE Len(progress[c])
           IN  /\ \A k \in 3..last : progress[c][k] \in 30..80
               /\ settled[c].kind = "result" =>
                      SubSeq(progress[c], last + 1, Len(progress[c])) = Milestones

\* a call that resolved after two rising reports of recognition progress
C18_Witness ==
    \E c \in Calls :
        /\ settled[c].kind = "result"
        /\ Len(progress[c]) >= 7 /\ progress[c][3] < progress[c][4]
        /\ progress[c][Len(progress[c])] = 100

(***************************************************************************)
(* C19. When the recognition call fails, processBookshelfImage rejects     *)
(* with the one generic error and no partial result: no spines, regions or *)
(* processed image of that call reach the caller, 100 is never reported    *)
(* for it, and the modal shows the failure and holds nothing of that call. *)
(***************************************************************************)
C19_RecognitionFailure ==
    \A c \in Calls :
        settled[c].kind = "error" =>
            /\ settled[c].message = GenericError
            /\ settled[c].bookSpines = NoDetection
            /\ settled[c].textRegions = NoDetection
            /\ settled[c].processedImageUrl = NoFile
            /\ \A k \in 1..Len(progress[c]) : progress[c][k] # 100
            /\ detectedBooks.call # c /\ textRegions.call # c
            /\ visualizationUrl # c /\ viz[c] = "none"
            /\ spc[c] = "done" => c \in alerts

\* a second scan failed in recognition after reporting recognition progress;
\* the modal still holds the regions of the first
C19_Witness ==
    /\ settled[2].kind = "error" /\ spc[2] = "done" /\ logged[2] \in EngineErrors
    /\ textRegions = [call |-> 1, image |-> 1, count |-> 1]
    /\ Len(progress[2]) >= 3 /\ ~scanning

(***************************************************************************)
(* C20. A visualization that never completes or that throws changes        *)
(* nothing of the detection: the detected books and text regions of the    *)
(* scan stay as they were, and the scan is not reported as failed.         *)
(***************************************************************************)
VizFailed(c) == viz[c] \in {"stalled", "hung", "threw"}

VizFailureStep(c) == ~VizFailed(c) /\ VizFailed(c)'

C20_VisualizationBestEffort ==
    [][\A c \in Calls :
          /\ VizFailureStep(c) =>
                 /\ detectedBooks' = detectedBooks /\ textRegions' = textRegions
                 /\ alerts' = alerts /\ scanning' = scanning
                 /\ settled' = settled
          /\ VizFailed(c)' => c \notin alerts']_vars

\* the visualization of a scan that found books threw, that of an earlier
\* scan never completed; the books are in the modal and nothing was reported
C20_Witness ==
    /\ \E c, d \in Calls : viz[c] = "threw" /\ viz[d] \in {"hung", "stalled"}
                            /\ detectedBooks = [call |-> c, image |-> 1, count |-> 1]
    /\ ~scanning /\ alerts = {}

(***************************************************************************)
(* C21. Calls of processBookshelfImage that overlap on the shared instance *)
(* do not reach each other: the processed image, the regions and the       *)
(* spines a call returns come from that call's own image, as they would if *)
(* the calls had run one after the other.                                  *)
(***************************************************************************)
C21_CallsIsolated ==
    \A c \in Calls :
        /\ spc[c] \in {"recognize", "resolved", "rejected", "done"} =>
               processedImageUrl[c] = callFile[c]
        /\ settled[c].kind = "result" =>
               /\ settled[c].processedImageUrl = callFile[c]
               /\ settled[c].bookSpines.image = callFile[c]
               /\ settled[c].textRegions.image = callFile[c]
               /\ settled[c].bookSpines.call = c
               /\ settled[c].textRegions.call = c

\* call 1 is still recognising its own image while call 2, started after a
\* close on another image, has drawn on the canvas and resolved
C21_Witness ==
    /\ spc[1] = "recognize" /\ spc[2] = "resolved"
    /\ callFile[1] # callFile[2]
    /\ canvas = callFile[2] /\ processedImageUrl[1] = callFile[1]
    /\ settled[2].bookSpines.count = 1

(***************************************************************************)
(* C25. Every call of processBookshelfImage eventually settles, also when  *)
(* the image file cannot be read or decoded, and the scanning flag set by  *)
(* performAdvancedOCR is eventually reset to false.                        *)
(***************************************************************************)
C25_EverySettles ==
    /\ \A c \in Calls : (spc[c] = "preprocess") ~> (settled[c].kind # "pending")
    /\ scanning ~> ~scanning

(***************************************************************************)
(* C26. The detected books and the text regions held by the modal are      *)
(* empty or the result of scanning the currently selected file, whatever   *)
(* the interleaving of file selection, Change Photo, close and the         *)
(* completion of a running scan.                                           *)
(***************************************************************************)
C26_ResultsOfSelectedFile ==
    /\ detectedBooks.count > 0 => detectedBooks.image = selectedFile
    /\ textRegions.count > 0 => textRegions.image = selectedFile

(***************************************************************************)
(* C22. RETURN_BOOK of a borrowed book makes it available with no          *)
(* borrowedBy and no borrowedDate, takes its id out of the borrowedBooks   *)
(* of the user who had it and changes no other book and no other user; a   *)
(* BORROW_BOOK of an available book followed by RETURN_BOOK of that book   *)
(* restores availability and borrowedBooks lists.                          *)
(***************************************************************************)
Availability(bs) == [k \in 1..Len(bs) |-> <<bs[k].id, bs[k].isAvailable>>]
BorrowLists(us) == [k \in 1..Len(us) |-> <<us[k].id, us[k].borrowedBooks>>]
Without(seq, x) == LET Keep(y) == y # x IN SelectSeq(seq, Keep)

C22_ReturnBook ==
    lastAction.type = "RETURN_BOOK" =>
        /\ Len(books) = Len(pre.books) /\ Len(users) = Len(pre.users)
        /\ \A k \in 1..Len(books) :
               IF pre.books[k].id = lastAction.book
               THEN books[k] = NewBook(lastAction.book)
               ELSE books[k] = pre.books[k]
        /\ \A k \in 1..Len(users) :
               IF pre.users[k].id = lastAction.user
               THEN /\ lastAction.book \notin Range(users[k].borrowedBooks)
                    /\ users[k] = [pre.users[k] EXCEPT !.borrowedBooks =
                                      Without(pre.users[k].borrowedBooks, lastAction.book)]
               ELSE users[k] = pre.users[k]
        /\ (prevAction.type = "BORROW_BOOK" /\ prevAction.book = lastAction.book) =>
               /\ Availability(books) = Availability(pre2.books)
               /\ BorrowLists(users) = BorrowLists(pre2.users)

\* a book borrowed and returned at once by a user who keeps another book,
\* with a second user registered
C22_Witness ==
    /\ lastAction.type = "RETURN_BOOK" /\ prevAction.type = "BORROW_BOOK"
    /\ prevAction.book = lastAction.book /\ Len(users) = 2
    /\ \E k \in 1..Len(users) :
           users[k].id = lastAction.user /\ Len(users[k].borrowedBooks) = 1

(***************************************************************************)
(* C23. After any sequence of reducer actions from the empty library,      *)
(* books and users agree: a book's borrowedBy is u exactly when its id is  *)
(* in u.borrowedBooks, a book is unavailable exactly when it has a         *)
(* borrowedBy, and every borrowedBy and every borrowed id refers to an     *)
(* existing user or book.                                                  *)
(***************************************************************************)
C23_BooksAndUsersAgree ==
    /\ \A k \in 1..Len(books), n \in 1..Len(users) :
           books[k].borrowedBy = users[n].id
               <=> books[k].id \in Range(users[n].borrowedBooks)
    /\ \A k \in 1..Len(books) :
           /\ ~books[k].isAvailable <=> books[k].borrowedBy # NoUser
           /\ books[k].borrowedBy # NoUser =>
                  \E n \in 1..Len(users) : users[n].id = books[k].borrowedBy
    /\ \A n \in 1..Len(users) : \A id \in Range(users[n].borrowedBooks) :
           \E k \in 1..Len(books) : books[k].id = id

C27_SameDataNotSaved ==
    [][(lastCall'.op = "save" /\ lastSaveRef # NoItem
            /\ lastSaveRef.content = content) =>
           UNCHANGED <<libraryData, libraryDataBackup, stamped>>]_vars

(***************************************************************************)
(* C28. Immediately after every saveToStorage call that carries out all of *)
(* its writes, localStorage holds at most 5 keys with the prefix           *)
(* 'libraryData_', the key written by the call is among them, and          *)
(* 'libraryDataBackup' holds the value 'libraryData' had just before the   *)
(* call, when it had one.                                                  *)
(***************************************************************************)
AfterSave ==
    /\ Cardinality(stamped') <= KeepBackups
    /\ now' \in stamped'
    /\ libraryData # NoItem => libraryDataBackup' = libraryData

DistinctIds(es) == \A a, b \in 1..Len(es) : a # b => es[a].id # es[b].id
KeepsAll(held, merged) ==
    Len(merged) >= Len(held) /\ \A k \in 1..Len(held) : merged[k] = held[k]

C29_MergedIdsDistinct ==
    /\ mergeLoaded.done =>
           /\ DistinctIds(mergeLoaded.books) /\ DistinctIds(mergeLoaded.users)
           /\ KeepsAll(heldBooks, mergeLoaded.books)
           /\ KeepsAll(heldUsers, mergeLoaded.users)
    /\ mergeSaved.done =>
           /\ DistinctIds(mergeSaved.books) /\ DistinctIds(mergeSaved.users)
           /\ KeepsAll(heldBooks, mergeSaved.books)
           /\ KeepsAll(heldUsers, mergeSaved.users)

(***************************************************************************)
(* C30. state.loading is true whenever at least one API operation of the   *)
(* library context is in flight, also when several overlap, and false once *)
(* all of them have completed, whether they succeeded or failed.           *)
(***************************************************************************)
C30_LoadingWhileInFlight ==
    /\ (\E o \in Ops : api[o] = "inflight") => loading
    /\ ((\A o \in Ops : api[o] # "inflight") /\ (\E o \in Ops : api[o] # "idle"))
           => ~loading

====
